---- MODULE Spec2Model ----
(***************************************************************************)
(* Wordfall: the letter-body simulation of components/PhysicsWorld.tsx.    *)
(*                                                                         *)
(* The state is what the component keeps in its refs and in the Matter.js  *)
(* world: engineRef, world.bodies (an array: walls and letters in          *)
(* insertion order), world.constraints, render.options, configRef,         *)
(* prevEffectiveSizeRef, onCollisionRef and the wall clock read through    *)
(* Date.now().  Every handler of the component is one action.              *)
(*                                                                         *)
(* Units: times are milliseconds.  Positions and velocities are integers   *)
(* in units of 1/PX pixel.  spacing is an integer number of thousandths.   *)
(* Effective size fontSize*spacing is an integer number of thousandths of  *)
(* a pixel.  Shape dimensions are exact rationals [n, d] in pixels,        *)
(* because Matter.Body.scale multiplies them by a quotient.                *)
(***************************************************************************)
EXTENDS Integers, Sequences, FiniteSets, TLC

VARIABLES
    engineRef,             \* TRUE once Matter.Engine.create() has run
    bodies,                \* engine.world.bodies, in array order
    constraints,           \* number of mouse constraints in world.constraints
    renderOptions,         \* render.options: [width, height, pixelRatio]
    config,                \* the config prop = configRef.current
    prevEffectiveSizeRef,  \* prevEffectiveSizeRef.current (thousandths of px)
    onCollisionRef,        \* TRUE when an onCollision callback is supplied
    now,                   \* Date.now(), ms
    nextId,                \* Matter's body id counter (Common.nextId)
    onReadyCalls,          \* history: number of onReady() invocations
    onCollisionCalls,      \* history: number of onCollision() invocations
    removed,               \* history: ids of letters removed from the world
    lastMax,               \* history: the most recently supplied maxCount
    app,                   \* the state and refs of App, the caller
    lastOp                 \* history: the handler that ran last, with its inputs

vars == <<engineRef, bodies, constraints, renderOptions, config,
          prevEffectiveSizeRef, onCollisionRef, now, nextId, onReadyCalls,
          onCollisionCalls, removed, lastMax, lastOp, app>>

----------------------------------------------------------------------------
(* Program constants *)

FADE_DURATION == 600

\* Math.abs(currentEffectiveSize - prevEffectiveSize) > 0.1, in thousandths
EPSILON == 100

\* createWalls: const wallThickness = 60
wallThickness == 60

\* resize handler: horizontal margin (width - 20, 20) and its target inset (50)
MARGIN_X == 20
INSET_X == 50

\* resize handler: vertical margin (height - 50) and its target inset (100)
MARGIN_Y == 50
INSET_Y == 100

\* addText: const safeY = startY ?? -50
DEFAULT_SPAWN_Y == 50

\* addText: setVelocity y: -2
SPAWN_VY == 2

\* position units per pixel
PX == 10 * 1000

\* App: WORD_PAUSE_MS, CHAR_SPACING, DEFAULT_DROP_Y
WORD_PAUSE_MS == 600
CHAR_SPACING == 35
DEFAULT_DROP_Y == 100

\* '#292524', the default colour parameter of addText
DEFAULT_COLOR == "#292524"

\* the JavaScript values undefined and null where a colour string is expected
JsUndefined == "undefined"
JsNull == "null"

----------------------------------------------------------------------------
(* Bounds of the model *)

\* letters ever spawned in one behaviour
MaxSpawn == 3

\* the clock stops advancing at MaxTime ms
MaxTime == 900

\* largest maxCount handed to pruneBodies
MaxCount == 2

\* most pairs in one collisionStart event
MaxPairs == 2

\* letters ever spawned in a behaviour with collisions
MaxColliders == 2

\* letters ever spawned in a behaviour with placed spawns
MaxPlaced == 2

\* letters typed one at a time in the eviction example
MaxTyped == 8

\* characters the auto-typer goes through in one behaviour
MaxAutoIndex == 2

\* the typing sounds played in a behaviour
MaxNotes == 10

\* the maxCount of the eviction example
EvictMax == 5

NoTime == -1
NoMax == -1
Undefined == -1000000

----------------------------------------------------------------------------
(* Exact rationals for shape dimensions *)

RECURSIVE Gcd(_, _)
Gcd(a, b) == IF b = 0 THEN a ELSE Gcd(b, a % b)

Abs(a) == IF a < 0 THEN -a ELSE a

Min(a, b) == IF a <= b THEN a ELSE b

Max(a, b) == IF a >= b THEN a ELSE b

Rat(n, d) == LET g == Gcd(Abs(n), Abs(d)) IN [n |-> n \div g, d |-> d \div g]

\* q * (cur / prev), the common factors taken out before multiplying
RatScale(q, cur, prev) ==
    LET f == Rat(cur, prev)
        g1 == Gcd(Abs(q.n), f.d)
        g2 == Gcd(f.n, q.d)
    IN Rat((q.n \div g1) * (f.n \div g2), (q.d \div g2) * (f.d \div g1))

----------------------------------------------------------------------------
(* World helpers *)

Range(s) == {s[i] : i \in 1..Len(s)}

\* world.bodies.filter(b => b.label === 'letter')
Letters(bs) == SelectSeq(bs, LAMBDA b : b.label = "letter")

\* world.bodies.filter(b => b.label === 'letter' && !b.isDying)
ActiveBodies(bs) == SelectSeq(bs, LAMBDA b : b.label = "letter" /\ ~b.isDying)

Ids(bs) == {bs[i].id : i \in 1..Len(bs)}

LetterIds == Ids(Letters(bodies))

AliveCount == Len(ActiveBodies(bodies))

----------------------------------------------------------------------------
(* Bodies.  Rotation is not modelled: no handler of the component reads it. *)

\* Matter.Bodies.rectangle(..., {isStatic: true, label: 'wall'}); walls carry
\* no custom data, so char, createdAt, hasCollided, isDying read as undefined.
\* A wall's id is its role (-1 ground, -2 leftWall, -3 rightWall).
Wall(id, x, y, w, h) ==
    [id |-> id, label |-> "wall", isStatic |-> TRUE,
     char |-> "", color |-> "", createdAt |-> NoTime,
     hasCollided |-> FALSE, isDying |-> FALSE, dyingSince |-> NoTime,
     x |-> x, y |-> y, vx |-> 0, vy |-> 0, isSleeping |-> FALSE,
     w |-> Rat(w, 1), h |-> Rat(h, 1),
     friction |-> 1, restitution |-> 0]

\* createWalls(w, h): ground, leftWall, rightWall
createWalls(w, h) ==
    << Wall(-1, (w * PX) \div 2, (h + wallThickness \div 2 - 10) * PX,
            w, wallThickness),
       Wall(-2, (0 - wallThickness \div 2) * PX, (h * PX) \div 2,
            wallThickness, h * 2),
       Wall(-3, (w + wallThickness \div 2) * PX, (h * PX) \div 2,
            wallThickness, h * 2) >>

\* fontSize * spacing, in thousandths of a pixel
EffectiveSize(c) == c.fontSize * c.spacing

\* fontSize * 0.6 * spacing and fontSize * 0.8 * spacing, in pixels
LetterWidth(c) == Rat(6 * c.fontSize * c.spacing, 10 * 1000)

LetterHeight(c) == Rat(8 * c.fontSize * c.spacing, 10 * 1000)

\* a space advances the cursor like a letter
SpaceAdvance_AsLetter(c) == 7 * c.fontSize * Max(1000, c.spacing)

\* fontSize * 0.6 * Math.max(1, spacing), in position units
SpaceAdvance(c) == 6 * c.fontSize * Max(1000, c.spacing)

\* the cursor advances by the physics width, fontSize * 0.7 * spacing
LetterAdvance_BySpacing(c) == 7 * c.fontSize * c.spacing

\* fontSize * 0.7 * Math.max(1, spacing), in position units
LetterAdvance(c) == 7 * c.fontSize * Max(1000, c.spacing)

\* The body addText builds for one character (lines 71-98)
NewLetter(id, char, color, x, y, vx, c, t) ==
    [id |-> id, label |-> "letter", isStatic |-> FALSE,
     char |-> char, color |-> color, createdAt |-> t,
     hasCollided |-> FALSE, isDying |-> FALSE, dyingSince |-> NoTime,
     x |-> x, y |-> y, vx |-> vx, vy |-> 0 - SPAWN_VY * PX,
     isSleeping |-> FALSE,
     w |-> LetterWidth(c), h |-> LetterHeight(c),
     friction |-> c.friction, restitution |-> c.restitution]

\* the test for ' ' is missing: every character gets a body
RECURSIVE SpawnLoop_SpacesToo(_, _, _, _, _, _, _, _)
SpawnLoop_SpacesToo(text, safeX, safeY, offsetX, id, color, vx, c) ==
    IF text = <<>> THEN <<>>
    ELSE <<NewLetter(id, Head(text), color, safeX + offsetX, safeY, vx, c, now)>>
         \o SpawnLoop_SpacesToo(Tail(text), safeX, safeY,
                                offsetX + LetterAdvance(c), id + 1, color, vx, c)

\* for (const char of text) { ... }: the bodies added, in text order
RECURSIVE SpawnLoop(_, _, _, _, _, _, _, _)
SpawnLoop(text, safeX, safeY, offsetX, id, color, vx, c) ==
    IF text = <<>> THEN <<>>
    ELSE IF Head(text) = " "
         THEN SpawnLoop(Tail(text), safeX, safeY, offsetX + SpaceAdvance(c),
                        id, color, vx, c)
         ELSE <<NewLetter(id, Head(text), color, safeX + offsetX, safeY,
                          vx, c, now)>>
              \o SpawnLoop(Tail(text), safeX, safeY,
                           offsetX + LetterAdvance(c), id + 1, color, vx, c)

NonSpace(text) == Len(SelectSeq(text, LAMBDA ch : ch # " "))

----------------------------------------------------------------------------
(* Handlers *)

\* the effect runs again on a later commit, as with a dependency list
Mount_Rerun(w, h, dpr, onReady) ==
    /\ engineRef' = TRUE
    /\ renderOptions' = [width |-> w, height |-> h, pixelRatio |-> dpr]
    /\ bodies' = createWalls(w, h)
    /\ constraints' = 1
    /\ onReadyCalls' = onReadyCalls + (IF onReady THEN 1 ELSE 0)
    /\ UNCHANGED <<config, prevEffectiveSizeRef, onCollisionRef, now, nextId,
                   onCollisionCalls>>

\* The mount effect (lines 164-411), run once, on a scene of w x h pixels:
\* engine, render, walls, mouse constraint, event handlers, resize observer,
\* and last if (onReady) onReady().
Mount(w, h, dpr, onReady) ==
    /\ ~engineRef
    /\ engineRef' = TRUE
    /\ renderOptions' = [width |-> w, height |-> h, pixelRatio |-> dpr]
    /\ bodies' = createWalls(w, h)
    /\ constraints' = 1
    /\ onReadyCalls' = onReadyCalls + (IF onReady THEN 1 ELSE 0)
    /\ UNCHANGED <<config, prevEffectiveSizeRef, onCollisionRef, now, nextId,
                   onCollisionCalls>>

\* The cleanup of the mount effect (lines 413-422): World.clear(world, false)
\* empties bodies and constraints; engineRef.current is not reset.
Unmount ==
    /\ engineRef
    /\ bodies' = <<>>
    /\ constraints' = 0
    /\ UNCHANGED <<engineRef, renderOptions, config, prevEffectiveSizeRef,
                   onCollisionRef, now, nextId, onReadyCalls, onCollisionCalls>>

\* useEffect(() => { onCollisionRef.current = onCollision }, [onCollision])
SetOnCollision(present) ==
    /\ onCollisionRef' = present
    /\ UNCHANGED <<engineRef, bodies, constraints, renderOptions, config,
                   prevEffectiveSizeRef, now, nextId, onReadyCalls,
                   onCollisionCalls>>

\* the guard on engineRef.current is missing
AddText_Unguarded(text, startX, startY, color, rndX, vx) ==
    /\ nextId + NonSpace(text) <= MaxSpawn + 1
    /\ bodies' = bodies \o SpawnLoop(text, startX * PX, startY * PX, 0, nextId,
                                      color, vx, config)
    /\ nextId' = nextId + NonSpace(text)
    /\ UNCHANGED <<engineRef, constraints, renderOptions, config,
                   prevEffectiveSizeRef, onCollisionRef, now, onReadyCalls,
                   onCollisionCalls>>

\* color: string = '#292524': the default stands in for undefined only
ColorOrDefault(color) == IF color = JsUndefined THEN DEFAULT_COLOR ELSE color

\* addText: the bodies it appends.  rndX in 0..9 and vx stand for the two
\* Math.random() draws; startX, startY are pixels or Undefined.  width is
\* sceneRef.current.clientWidth, the width the last handled resize recorded.
SpawnedBodies(text, startX, startY, color, rndX, vx) ==
    LET width == renderOptions.width
        safeX == IF startX = Undefined
                 THEN (width * PX * (8 * rndX + 10)) \div 100
                 ELSE startX * PX
        safeY == IF startY = Undefined
                 THEN (0 - DEFAULT_SPAWN_Y) * PX
                 ELSE startY * PX
    IN SpawnLoop(text, safeX, safeY, 0, nextId, ColorOrDefault(color), vx,
                 config)

\* addText(text, startX, startY, color)
SpawnText(text, startX, startY, color, rndX, vx) ==
    /\ IF ~engineRef
       THEN UNCHANGED <<bodies, nextId>>
       ELSE /\ bodies' = bodies \o SpawnedBodies(text, startX, startY, color,
                                                  rndX, vx)
            /\ nextId' = nextId + NonSpace(text)
    /\ UNCHANGED <<engineRef, constraints, renderOptions, config,
                   prevEffectiveSizeRef, onCollisionRef, now, onReadyCalls,
                   onCollisionCalls>>

\* addText, in a behaviour that spawns at most MaxSpawn letters
AddText(text, startX, startY, color, rndX, vx) ==
    /\ nextId + NonSpace(text) <= MaxSpawn + 1
    /\ SpawnText(text, startX, startY, color, rndX, vx)

\* only the letters that are not fading are removed
ClearWorld_KeepDying ==
    /\ IF ~engineRef
       THEN UNCHANGED bodies
       ELSE bodies' = SelectSeq(bodies, LAMBDA b : b.label # "letter" \/ b.isDying)
    /\ UNCHANGED <<engineRef, constraints, renderOptions, config,
                   prevEffectiveSizeRef, onCollisionRef, now, nextId,
                   onReadyCalls, onCollisionCalls>>

\* clearWorld()
ClearWorld ==
    /\ IF ~engineRef
       THEN UNCHANGED bodies
       ELSE bodies' = SelectSeq(bodies, LAMBDA b : b.label # "letter")
    /\ UNCHANGED <<engineRef, constraints, renderOptions, config,
                   prevEffectiveSizeRef, onCollisionRef, now, nextId,
                   onReadyCalls, onCollisionCalls>>

\* slice(-countToRemove): the newest bodies instead of the oldest
BodiesToMark_Newest(bs, maxCount) ==
    LET activeBodies == ActiveBodies(bs)
    IN IF Len(activeBodies) > maxCount
       THEN Ids(SubSeq(activeBodies, maxCount + 1, Len(activeBodies)))
       ELSE {}

\* countToRemove one too small
BodiesToMark_OffByOne(bs, maxCount) ==
    LET activeBodies == ActiveBodies(bs)
    IN IF Len(activeBodies) > maxCount
       THEN Ids(SubSeq(activeBodies, 1, Len(activeBodies) - maxCount - 1))
       ELSE {}

\* the filter forgets !isDying: dying letters count as active
BodiesToMark_CountDying(bs, maxCount) ==
    LET activeBodies == Letters(bs)
    IN IF Len(activeBodies) > maxCount
       THEN Ids(SubSeq(activeBodies, 1, Len(activeBodies) - maxCount))
       ELSE {}

\* activeBodies.slice(0, countToRemove) when activeBodies.length > maxCount
BodiesToMark(bs, maxCount) ==
    LET activeBodies == ActiveBodies(bs)
    IN IF Len(activeBodies) > maxCount
       THEN Ids(SubSeq(activeBodies, 1, Len(activeBodies) - maxCount))
       ELSE {}

\* isDying is set but dyingSince is left as it was
MarkDying_NoStamp(bs, ids, t) ==
    [i \in 1..Len(bs) |->
        IF bs[i].id \in ids THEN [bs[i] EXCEPT !.isDying = TRUE] ELSE bs[i]]

\* a marked body is stopped where it is
MarkDying_Freeze(bs, ids, t) ==
    [i \in 1..Len(bs) |->
        IF bs[i].id \in ids
        THEN [bs[i] EXCEPT !.isDying = TRUE, !.dyingSince = t,
                           !.vx = 0, !.vy = 0]
        ELSE bs[i]]

\* the bodies that are already dying get a new dyingSince as well
MarkDying_Refresh(bs, ids, t) ==
    [i \in 1..Len(bs) |->
        IF bs[i].id \in ids \/ bs[i].isDying
        THEN [bs[i] EXCEPT !.isDying = TRUE, !.dyingSince = t]
        ELSE bs[i]]

\* bodiesToMark.forEach(body => { isDying = true; dyingSince = Date.now() })
MarkDying(bs, ids, t) ==
    [i \in 1..Len(bs) |->
        IF bs[i].id \in ids
        THEN [bs[i] EXCEPT !.isDying = TRUE, !.dyingSince = t]
        ELSE bs[i]]

\* lines 115-129: the world after pruneBodies(maxCount) at time t
Pruned(bs, maxCount, t) == MarkDying(bs, BodiesToMark(bs, maxCount), t)

\* pruneBodies(maxCount)
PruneBodies(maxCount) ==
    /\ IF ~engineRef
       THEN UNCHANGED bodies
       ELSE bodies' = Pruned(bodies, maxCount, now)
    /\ UNCHANGED <<engineRef, constraints, renderOptions, config,
                   prevEffectiveSizeRef, onCollisionRef, now, nextId,
                   onReadyCalls, onCollisionCalls>>

\* Date.now() moves on between handlers
AdvanceTime(dt) ==
    /\ now + dt <= MaxTime
    /\ now' = now + dt
    /\ UNCHANGED <<engineRef, bodies, constraints, renderOptions, config,
                   prevEffectiveSizeRef, onCollisionRef, nextId, onReadyCalls,
                   onCollisionCalls>>

\* elapsed > FADE_DURATION instead of >=
Expired_Strict(bs, t) ==
    {bs[i].id : i \in {j \in 1..Len(bs) :
                          /\ bs[j].isDying
                          /\ t - bs[j].dyingSince > FADE_DURATION}}

\* the sweep goes by the age of a letter, dying or not
Expired_ByAge(bs, t) ==
    {bs[i].id : i \in {j \in 1..Len(bs) :
                          /\ bs[j].label = "letter"
                          /\ t - bs[j].createdAt >= FADE_DURATION}}

\* beforeUpdate (lines 263-280): ids of the bodies the sweep removes
Expired(bs, t) ==
    {bs[i].id : i \in {j \in 1..Len(bs) :
                          /\ bs[j].isDying
                          /\ t - bs[j].dyingSince >= FADE_DURATION}}

\* bodiesToRemove is collected but World.remove is never called
Sweep_Never(bs, t) == bs

\* Matter.World.remove(engine.world, bodiesToRemove)
Sweep(bs, t) ==
    LET gone == Expired(bs, t)
    IN SelectSeq(bs, LAMBDA b : b.id \notin gone)

\* Engine.update integrates the letters: moves[id] is the new position and
\* velocity <<x, y, vx, vy>> of letter id; a letter not in DOMAIN moves rests.
Integrate(bs, moves) ==
    [i \in 1..Len(bs) |->
        IF bs[i].id \in DOMAIN moves
        THEN LET m == moves[bs[i].id]
             IN [bs[i] EXCEPT !.x = m[1], !.y = m[2], !.vx = m[3], !.vy = m[4]]
        ELSE bs[i]]

\* the flag is read but never written
Latch_Never(bs, id) == bs

\* if (body.label === 'letter' && !body.hasCollided) body.hasCollided = true
Latch(bs, id) ==
    [i \in 1..Len(bs) |->
        IF bs[i].id = id /\ bs[i].label = "letter" /\ ~bs[i].hasCollided
        THEN [bs[i] EXCEPT !.hasCollided = TRUE]
        ELSE bs[i]]

Fresh(bs, id) ==
    \E i \in 1..Len(bs) :
        bs[i].id = id /\ bs[i].label = "letter" /\ ~bs[i].hasCollided

\* for (let i = 0; i < pairs.length; i++) { ... } of the collisionStart handler:
\* the bodies afterwards and the collisionOccurred flag
RECURSIVE CollisionLoop(_, _, _)
CollisionLoop(bs, pairs, occurred) ==
    IF pairs = <<>> THEN [bodies |-> bs, collisionOccurred |-> occurred]
    ELSE LET bodyA == Head(pairs)[1]
             bodyB == Head(pairs)[2]
             afterA == Latch(bs, bodyA)
             afterB == Latch(afterA, bodyB)
         IN CollisionLoop(afterB, Tail(pairs),
                          occurred \/ Fresh(bs, bodyA) \/ Fresh(afterA, bodyB))

\* the callback runs on every collisionStart event, latched bodies or not
Notifications_Always(collisionOccurred, callback) ==
    IF callback THEN 1 ELSE 0

\* if (collisionOccurred && onCollisionRef.current) onCollisionRef.current()
Notifications(collisionOccurred, callback) ==
    IF collisionOccurred /\ callback THEN 1 ELSE 0

\* the sweep is registered on afterUpdate: the step integrates and collides
\* the bodies that were in the world before it
Tick_SweepLast(moves, pairs) ==
    /\ engineRef
    /\ LET moved == Integrate(bodies, moves)
           hit == CollisionLoop(moved, pairs, FALSE)
           calls == Notifications(hit.collisionOccurred, onCollisionRef)
       IN /\ \A i \in 1..Len(pairs) :
                 /\ pairs[i][1] \in Ids(bodies)
                 /\ pairs[i][2] \in Ids(bodies)
                 /\ pairs[i][1] # pairs[i][2]
          /\ bodies' = Sweep(hit.bodies, now)
          /\ onCollisionCalls' = onCollisionCalls + calls
    /\ UNCHANGED <<engineRef, constraints, renderOptions, config,
                   prevEffectiveSizeRef, onCollisionRef, now, nextId,
                   onReadyCalls>>

\* One Engine.update: the beforeUpdate sweep, the integration, and the
\* collisionStart handler when the step started collisions (pairs # <<>>).
\* pairs name bodies that are in the world after the sweep.
Tick(moves, pairs) ==
    /\ engineRef
    /\ LET swept == Sweep(bodies, now)
           moved == Integrate(swept, moves)
           hit == CollisionLoop(moved, pairs, FALSE)
           calls == Notifications(hit.collisionOccurred, onCollisionRef)
       IN /\ \A i \in 1..Len(pairs) :
                 /\ pairs[i][1] \in Ids(swept)
                 /\ pairs[i][2] \in Ids(swept)
                 /\ pairs[i][1] # pairs[i][2]
          /\ bodies' = hit.bodies
          /\ onCollisionCalls' = onCollisionCalls + calls
    /\ UNCHANGED <<engineRef, constraints, renderOptions, config,
                   prevEffectiveSizeRef, onCollisionRef, now, nextId,
                   onReadyCalls>>

\* afterRender (lines 298-308): alpha of a letter at time t, times FADE_DURATION
\* (alpha = 1 - Math.min(1, elapsed / FADE_DURATION) when dying, else 1)
RenderAlpha(b, t) ==
    IF b.isDying
    THEN FADE_DURATION - Min(FADE_DURATION, t - b.dyingSince)
    ELSE FADE_DURATION

\* if (alpha <= 0) return; otherwise the glyph is drawn
Drawn(b, t) == b.char # "" /\ RenderAlpha(b, t) > 0

\* progress is not clamped to 1
RenderScale_NoClamp(b, t) ==
    IF b.isDying
    THEN 10 * FADE_DURATION - 4 * (t - b.dyingSince)
    ELSE 10 * FADE_DURATION

\* afterRender (lines 299-308): scale of a letter at time t, times
\* 10 * FADE_DURATION (scale = 1 - progress * 0.4 when dying, else 1)
RenderScale(b, t) ==
    IF b.isDying
    THEN 10 * FADE_DURATION - 4 * Min(FADE_DURATION, t - b.dyingSince)
    ELSE 10 * FADE_DURATION

\* only the width is scaled
ScaleBody_WidthOnly(b, cur, prev) ==
    [b EXCEPT !.w = RatScale(b.w, cur, prev)]

\* Matter.Body.scale(body, scaleFactor, scaleFactor) with
\* scaleFactor = currentEffectiveSize / prevEffectiveSize
ScaleBody(b, cur, prev) ==
    [b EXCEPT !.w = RatScale(b.w, cur, prev), !.h = RatScale(b.h, cur, prev)]

\* Math.abs(currentEffectiveSize - prevEffectiveSize) > 0.1
SizeChanged(cur, prev) == Abs(cur - prev) > EPSILON

\* the label test is missing: the walls are scaled as well
Rescale_AllBodies(bs, cur, prev) ==
    [i \in 1..Len(bs) |-> ScaleBody(bs[i], cur, prev)]

\* lines 145-149: the rescale of every letter
Rescale(bs, cur, prev) ==
    [i \in 1..Len(bs) |->
        IF bs[i].label = "letter" THEN ScaleBody(bs[i], cur, prev) ELSE bs[i]]

\* lines 155-160: restitution and friction of every letter
ApplyMaterial(bs, c) ==
    [i \in 1..Len(bs) |->
        IF bs[i].label = "letter"
        THEN [bs[i] EXCEPT !.restitution = c.restitution,
                           !.friction = c.friction]
        ELSE bs[i]]

\* restitution and friction are applied inside the rescale branch only
UpdateConfig_MaterialOnRescale(c) ==
    /\ engineRef
    /\ config' = c
    /\ LET cur == EffectiveSize(c)
           prev == prevEffectiveSizeRef
       IN IF SizeChanged(cur, prev)
          THEN /\ bodies' = ApplyMaterial(Rescale(bodies, cur, prev), c)
               /\ prevEffectiveSizeRef' = cur
          ELSE UNCHANGED <<bodies, prevEffectiveSizeRef>>
    /\ UNCHANGED <<engineRef, constraints, renderOptions, onCollisionRef, now,
                   nextId, onReadyCalls, onCollisionCalls>>

\* The config effects (lines 43-45 and 134-162) for a new config prop.  Both
\* run in the commit that delivers the prop; the first commit also runs the
\* mount effect, so a later config always finds the engine.
UpdateConfig(c) ==
    /\ engineRef
    /\ config' = c
    /\ LET cur == EffectiveSize(c)
           prev == prevEffectiveSizeRef
       IN IF SizeChanged(cur, prev)
          THEN /\ bodies' = ApplyMaterial(Rescale(bodies, cur, prev), c)
               /\ prevEffectiveSizeRef' = cur
          ELSE /\ bodies' = ApplyMaterial(bodies, c)
               /\ UNCHANGED prevEffectiveSizeRef
    /\ UNCHANGED <<engineRef, constraints, renderOptions, onCollisionRef, now,
                   nextId, onReadyCalls, onCollisionCalls>>

\* any difference counts, however small
IsSizeDifferent_Any(ro, width, height) ==
    ro.width # width \/ ro.height # height

\* lines 356-359
IsSizeDifferent(ro, width, height) ==
    Abs(ro.width - width) > 1 \/ Abs(ro.height - height) > 1

IsDprDifferent(ro, pixelRatio) == ro.pixelRatio # pixelRatio

\* the letter is moved, but setVelocity is not called
PushBack_KeepVelocity(b, width, height) ==
    LET x1 == IF b.x > (width - MARGIN_X) * PX
              THEN (width - INSET_X) * PX ELSE b.x
        newX == IF x1 < MARGIN_X * PX THEN INSET_X * PX ELSE x1
        newY == IF b.y > (height - MARGIN_Y) * PX
                THEN (height - INSET_Y) * PX ELSE b.y
    IN IF newX # b.x \/ newY # b.y
       THEN [b EXCEPT !.x = newX, !.y = newY, !.isSleeping = FALSE]
       ELSE b

\* lines 393-405 for one letter: push it back inside, wake it, stop it
PushBack(b, width, height) ==
    LET x1 == IF b.x > (width - MARGIN_X) * PX
              THEN (width - INSET_X) * PX ELSE b.x
        newX == IF x1 < MARGIN_X * PX THEN INSET_X * PX ELSE x1
        newY == IF b.y > (height - MARGIN_Y) * PX
                THEN (height - INSET_Y) * PX ELSE b.y
    IN IF newX # b.x \/ newY # b.y
       THEN [b EXCEPT !.x = newX, !.y = newY, !.isSleeping = FALSE,
                      !.vx = 0, !.vy = 0]
       ELSE b

\* createWalls is not called after World.clear
Rebuild_NoWalls(bs, width, height) ==
    LET letters == Letters(bs)
    IN [i \in 1..Len(letters) |-> PushBack(letters[i], width, height)]

\* the letters are rebuilt from char and position, losing their custom flags
Rebuild_Fresh(bs, width, height) ==
    LET letters == Letters(bs)
    IN createWalls(width, height)
       \o [i \in 1..Len(letters) |->
              [PushBack(letters[i], width, height)
                 EXCEPT !.isDying = FALSE, !.dyingSince = NoTime]]

\* only the letters that are not dying are preserved
Rebuild_DropDying(bs, width, height) ==
    LET letters == ActiveBodies(bs)
    IN createWalls(width, height)
       \o [i \in 1..Len(letters) |-> PushBack(letters[i], width, height)]

\* lines 379-406: World.clear, createWalls, World.add([...bodies, mouseConstraint]),
\* then the push-back of every preserved letter
Rebuild(bs, width, height) ==
    LET letters == Letters(bs)
    IN createWalls(width, height)
       \o [i \in 1..Len(letters) |-> PushBack(letters[i], width, height)]

\* the letters are added back before createWalls is called
ResizeWorlds_LettersFirst(bs, width, height) ==
    LET letters == Letters(bs)
        pushed == [i \in 1..Len(letters) |-> PushBack(letters[i], width, height)]
    IN << <<>>, letters, letters \o createWalls(width, height),
          pushed \o createWalls(width, height) >>

\* world.bodies after each statement of lines 379-406 in turn: World.clear,
\* createWalls, World.add([...bodies, mouseConstraint]), the push-back loop
ResizeWorlds(bs, width, height) ==
    LET letters == Letters(bs)
        pushed == [i \in 1..Len(letters) |-> PushBack(letters[i], width, height)]
    IN << <<>>, createWalls(width, height),
          createWalls(width, height) \o letters,
          createWalls(width, height) \o pushed >>

\* World.clear leaves the constraints in place, and the callback adds the
\* mouse constraint once more
Resize_SecondConstraint(width, height, pixelRatio) ==
    /\ IF ~engineRef
          \/ (~IsSizeDifferent(renderOptions, width, height)
              /\ ~IsDprDifferent(renderOptions, pixelRatio))
       THEN UNCHANGED <<bodies, constraints, renderOptions>>
       ELSE /\ renderOptions' = [width |-> width, height |-> height,
                                 pixelRatio |-> pixelRatio]
            /\ bodies' = Rebuild(bodies, width, height)
            /\ constraints' = constraints + 1
    /\ UNCHANGED <<engineRef, config, prevEffectiveSizeRef, onCollisionRef,
                   now, nextId, onReadyCalls, onCollisionCalls>>

\* The ResizeObserver callback for an entry of width x height at pixelRatio
Resize(width, height, pixelRatio) ==
    /\ IF ~engineRef
          \/ (~IsSizeDifferent(renderOptions, width, height)
              /\ ~IsDprDifferent(renderOptions, pixelRatio))
       THEN UNCHANGED <<bodies, constraints, renderOptions>>
       ELSE /\ renderOptions' = [width |-> width, height |-> height,
                                 pixelRatio |-> pixelRatio]
            /\ bodies' = Rebuild(bodies, width, height)
            /\ constraints' = 1
    /\ UNCHANGED <<engineRef, config, prevEffectiveSizeRef, onCollisionRef,
                   now, nextId, onReadyCalls, onCollisionCalls>>

----------------------------------------------------------------------------
(* Initial state: the first commit is over, so the mount effect has run on *)
(* a scene of SceneW x SceneH pixels and onReady has been called.          *)

\* scene size (px) at mount
SceneW == 400
SceneH == 300

\* App's INITIAL_CONFIG (gravity 1, restitution 0.6, friction 0.5, in tenths);
\* fontSize 10 px and spacing 1.000 are the model's choice of a first config.
InitialConfig ==
    [gravity |-> 10, restitution |-> 6, friction |-> 5,
     fontSize |-> 10, spacing |-> 1000]

\* The time 0 of Date.now(), which lies far more than WORD_PAUSE_MS before
\* the clock of the model starts
Epoch == 0 - 2 * WORD_PAUSE_MS

\* seedColor: useState('#ef4444')
SeedColor == "#ef4444"

\* paletteColors: useState(['#ef4444'])
Palette == <<"#ef4444">>

\* autoText: useState(FALLING_POEM), here a letter and a space
AutoText == <<"a", " ">>

\* semitone offsets from middle C of the chords I, V, vi and IV
CHORD_PROGRESSION ==
    <<<<0, 4, 7, 12>>, <<7, 11, 14, 19>>, <<9, 12, 16, 21>>, <<5, 9, 12, 17>>>>

\* the fields of a new AudioService: ctx FALSE is null, and dryNode and
\* convolver are set with ctx
InitialAudio ==
    [ctx |-> FALSE, isMuted |-> FALSE, currentChordIndex |-> 0,
     arpeggioIndex |-> 0, isArpeggioAscending |-> TRUE]

\* App after its first render: useState(300) for maxParticles (the cap the
\* caller hands to pruneBodies, here the largest cap of the model),
\* isAutoTyping false, the palette, the text of the auto-typer and the
\* typewriter refs; anchor <<>> is null.  colorIndex is colorIndexRef.current
\* modulo the palette length; the palettes of the model have one colour at
\* most.  autoTypeTimeoutRef 0 is null, timeouts the handles of the pending
\* timeouts of the auto-typer; audioService is the AudioService.
InitialApp ==
    [maxParticles |-> MaxCount, isAutoTyping |-> FALSE, autoTypeIndex |-> 0,
     lastTypeTime |-> Epoch, cursorX |-> 0, cursorY |-> DEFAULT_DROP_Y,
     anchor |-> <<>>, colorIndex |-> 0, paletteColors |-> Palette,
     autoText |-> AutoText, autoTypeTimeoutRef |-> 0, timeouts |-> {},
     audioService |-> InitialAudio]

\* gone: how many letters left the world in the step; touched: the ids of the
\* bodies in the pairs of the step's collisionStart event
Op(name, arg) == [name |-> name, arg |-> arg, gone |-> 0, touched |-> {}]

Gone == LetterIds \ Ids(Letters(bodies'))

Init ==
    /\ engineRef = TRUE
    /\ bodies = createWalls(SceneW, SceneH)
    /\ constraints = 1
    /\ renderOptions = [width |-> SceneW, height |-> SceneH, pixelRatio |-> 1]
    /\ config = InitialConfig
    /\ prevEffectiveSizeRef = EffectiveSize(InitialConfig)
    /\ onCollisionRef = TRUE
    /\ now = 0
    /\ nextId = 1
    /\ onReadyCalls = 1
    /\ onCollisionCalls = 0
    /\ removed = {}
    /\ lastMax = NoMax
    /\ lastOp = Op("mount", 0)
    /\ app = InitialApp

----------------------------------------------------------------------------
(* History: which handler ran last, and which letters have left the world *)

Log(name, arg) ==
    /\ lastOp' = [Op(name, arg) EXCEPT !.gone = Cardinality(Gone)]
    /\ removed' = removed \cup Gone

\* arg: the onCollision() invocations of the step
LogTick(pairs) ==
    /\ lastOp' = [name |-> "tick", arg |-> onCollisionCalls' - onCollisionCalls,
                  gone |-> Cardinality(Gone),
                  touched |-> {pairs[i][1] : i \in 1..Len(pairs)}
                              \cup {pairs[i][2] : i \in 1..Len(pairs)}]
    /\ removed' = removed \cup Gone

\* the letters in the world that are fading
FadingCount == Len(Letters(bodies)) - AliveCount

\* 1 when the resize is handled, 0 when the callback returns early
Handled(width, height, pixelRatio) ==
    IF engineRef /\ (IsSizeDifferent(renderOptions, width, height)
                     \/ IsDprDifferent(renderOptions, pixelRatio))
    THEN 1 ELSE 0

----------------------------------------------------------------------------
(* The letter life cycle: spawn, prune, fade, sweep, clear, resize, config *)

\* ms between two handlers: half a fade
TimeStep == FADE_DURATION \div 2

Texts == {<<"a">>, <<" ">>}

Sizes == {<<SceneW, SceneH>>, <<SceneW * 2, SceneH * 2>>}

Configs == {InitialConfig, [InitialConfig EXCEPT !.spacing = 2000]}

Next ==
    \/ \E text \in Texts :
          /\ AddText(text, 100, 100, DEFAULT_COLOR, 0, 0)
          /\ Log("addText", 0) /\ UNCHANGED <<lastMax, app>>
    \/ ClearWorld /\ Log("clearWorld", FadingCount) /\ UNCHANGED <<lastMax, app>>
    \/ \E maxCount \in 0..MaxCount :
          /\ PruneBodies(maxCount)
          /\ Log("pruneBodies", maxCount) /\ UNCHANGED <<lastMax, app>>
    \/ AdvanceTime(TimeStep) /\ Log("advanceTime", 0) /\ UNCHANGED <<lastMax, app>>
    \/ Tick(<<>>, <<>>) /\ LogTick(<<>>) /\ UNCHANGED <<lastMax, app>>
    \/ \E s \in Sizes :
          /\ Resize(s[1], s[2], 1)
          /\ Log("resize", Handled(s[1], s[2], 1)) /\ UNCHANGED <<lastMax, app>>
    \/ \E c \in Configs :
          /\ UpdateConfig(c)
          /\ Log("updateConfig", 0) /\ UNCHANGED <<lastMax, app>>

Spec == Init /\ [][Next]_vars

\* Spawn bursts and prunes, with the most recently supplied maxCount kept
NextPopulation ==
    \/ \E text \in Texts \cup {<<"h", "i">>} :
          /\ AddText(text, 100, 100, DEFAULT_COLOR, 0, 0)
          /\ Log("addText", 0) /\ UNCHANGED <<lastMax, app>>
    \/ \E maxCount \in 0..MaxCount :
          /\ PruneBodies(maxCount)
          /\ Log("pruneBodies", maxCount) /\ lastMax' = maxCount
          /\ UNCHANGED app
    \/ ClearWorld /\ Log("clearWorld", 0) /\ UNCHANGED <<lastMax, app>>
    \/ AdvanceTime(TimeStep) /\ Log("advanceTime", 0) /\ UNCHANGED <<lastMax, app>>
    \/ Tick(<<>>, <<>>) /\ LogTick(<<>>) /\ UNCHANGED <<lastMax, app>>

SpecPopulation == Init /\ [][NextPopulation]_vars

----------------------------------------------------------------------------
(* Collisions: physics steps that start collisions between bodies *)

\* The bodies a pair can name after the sweep of this step: the letters that
\* stay, and the ground (the side walls are handled like the ground).
Collidable ==
    {id \in Ids(Sweep(bodies, now)) : id > 0 \/ id = -1}

\* The pairs of bodies that can start colliding: two different bodies, at
\* least one of them a letter; <<a, b>> with a < b.
Pairs ==
    {p \in Collidable \X Collidable : p[1] < p[2] /\ p[2] > 0}

\* a fixed listing order for the pairs of one event
PairBefore(p, q) == p[1] < q[1] \/ (p[1] = q[1] /\ p[2] < q[2])

\* the lists of 1..n pairs in listing order, every pair at most once
RECURSIVE PairListsUpTo(_)
PairListsUpTo(n) ==
    IF n = 0 THEN {<<>>}
    ELSE LET shorter == PairListsUpTo(n - 1)
         IN shorter \cup
            {Append(ps, p) : <<ps, p>> \in
                {x \in shorter \X Pairs :
                    /\ Len(x[1]) = n - 1
                    /\ Len(x[1]) > 0 => PairBefore(x[1][Len(x[1])], x[2])}}

\* Matter names either body of a pair bodyA: the list as it is, or with
\* bodyA and bodyB exchanged in every pair.
Oriented(ps, flip) ==
    [i \in 1..Len(ps) |-> IF flip THEN <<ps[i][2], ps[i][1]>> ELSE ps[i]]

\* event.pairs of one collisionStart event: 1..MaxPairs pairs
PairLists ==
    {Oriented(ps, flip) : <<ps, flip>> \in
        (PairListsUpTo(MaxPairs) \ {<<>>}) \X BOOLEAN}

NextCollide ==
    \/ /\ nextId <= MaxColliders
       /\ AddText(<<"a">>, 100, 100, DEFAULT_COLOR, 0, 0)
       /\ Log("addText", 0) /\ UNCHANGED <<lastMax, app>>
    \/ ClearWorld /\ Log("clearWorld", 0) /\ UNCHANGED <<lastMax, app>>
    \/ \E maxCount \in 0..MaxCount :
          /\ PruneBodies(maxCount)
          /\ Log("pruneBodies", maxCount) /\ UNCHANGED <<lastMax, app>>
    \/ Tick(<<>>, <<>>) /\ LogTick(<<>>) /\ UNCHANGED <<lastMax, app>>
    \/ \E pairs \in PairLists :
          Tick(<<>>, pairs) /\ LogTick(pairs) /\ UNCHANGED <<lastMax, app>>
    \/ \E s \in Sizes :
          /\ Resize(s[1], s[2], 1)
          /\ Log("resize", Handled(s[1], s[2], 1)) /\ UNCHANGED <<lastMax, app>>
    \/ \E present \in BOOLEAN :
          /\ SetOnCollision(present)
          /\ Log("setOnCollision", 0) /\ UNCHANGED <<lastMax, app>>

SpecCollide == Init /\ [][NextCollide]_vars

----------------------------------------------------------------------------
(* Geometry: letters spawned at chosen and at random places, and resizes to *)
(* large, narrow and low scenes                                             *)

\* startX and startY of a spawn, px
SpawnXs == {10, 100, 390}

SpawnYs == {100, 290}

\* contentRect of a resize entry, px: the mount size, a narrow and a low one
GeomSizes == {<<SceneW, SceneH>>, <<60, SceneH>>, <<200, 80>>}

NextGeom ==
    \/ \E x \in SpawnXs, y \in SpawnYs :
          /\ nextId <= MaxPlaced
          /\ AddText(<<"a">>, x, y, DEFAULT_COLOR, 0, 0)
          /\ Log("addText", 0) /\ UNCHANGED <<lastMax, app>>
    \/ \E rndX \in {0, 9} :
          /\ nextId <= MaxPlaced
          /\ AddText(<<"a">>, Undefined, Undefined, DEFAULT_COLOR, rndX, 0)
          /\ Log("addText", 1) /\ UNCHANGED <<lastMax, app>>
    \/ \E s \in GeomSizes :
          /\ Resize(s[1], s[2], 1)
          /\ Log("resize", Handled(s[1], s[2], 1)) /\ UNCHANGED <<lastMax, app>>
    \/ ClearWorld /\ Log("clearWorld", 0) /\ UNCHANGED <<lastMax, app>>

SpecGeom == Init /\ [][NextGeom]_vars

----------------------------------------------------------------------------
(* Sizes: config updates that change fontSize * spacing by much, by less   *)
(* than the epsilon, or not at all, between spawns                         *)

SizeConfigs ==
    {[InitialConfig EXCEPT !.fontSize = f, !.spacing = sp] :
        f \in {10, 20}, sp \in {1000, 1005, 4000}}

\* 1 when the update rescales the letters, 0 when it does not
Rescaled(c) == IF SizeChanged(EffectiveSize(c), prevEffectiveSizeRef) THEN 1 ELSE 0

NextSize ==
    \/ /\ AddText(<<"a">>, 100, 100, DEFAULT_COLOR, 0, 0)
       /\ Log("addText", 0) /\ UNCHANGED <<lastMax, app>>
    \/ \E c \in SizeConfigs :
          /\ UpdateConfig(c)
          /\ Log("updateConfig", Rescaled(c)) /\ UNCHANGED <<lastMax, app>>
    \/ ClearWorld /\ Log("clearWorld", 0) /\ UNCHANGED <<lastMax, app>>

SpecSize == Init /\ [][NextSize]_vars

----------------------------------------------------------------------------
(* Life cycle: the component from its first render, before the mount effect *)
(* has created the engine, to the cleanup of that effect                    *)

\* After the first render and before its effects: useRef initial values, no
\* engine, no world, no render
InitUnmounted ==
    /\ engineRef = FALSE
    /\ bodies = <<>>
    /\ constraints = 0
    /\ renderOptions = [width |-> 0, height |-> 0, pixelRatio |-> 1]
    /\ config = InitialConfig
    /\ prevEffectiveSizeRef = EffectiveSize(InitialConfig)
    /\ onCollisionRef = TRUE
    /\ now = 0
    /\ nextId = 1
    /\ onReadyCalls = 0
    /\ onCollisionCalls = 0
    /\ removed = {}
    /\ lastMax = NoMax
    /\ lastOp = Op("render", 0)
    /\ app = InitialApp

\* the component has not been unmounted: React calls nothing afterwards
Running == lastOp.name # "unmount"

NextLifecycle ==
    \/ \E s \in Sizes, onReady \in BOOLEAN :
          /\ Running
          /\ Mount(s[1], s[2], 1, onReady)
          /\ Log("mount", IF onReady THEN 1 ELSE 0) /\ UNCHANGED <<lastMax, app>>
    \/ /\ Running
       /\ Unmount /\ Log("unmount", 0) /\ UNCHANGED <<lastMax, app>>
    \/ /\ Running
       /\ nextId <= MaxPlaced
       /\ AddText(<<"a">>, 100, 100, DEFAULT_COLOR, 0, 0)
       /\ Log("addText", 0) /\ UNCHANGED <<lastMax, app>>
    \/ /\ Running
       /\ ClearWorld /\ Log("clearWorld", 0) /\ UNCHANGED <<lastMax, app>>
    \/ \E maxCount \in 0..MaxCount :
          /\ Running
          /\ PruneBodies(maxCount)
          /\ Log("pruneBodies", maxCount) /\ UNCHANGED <<lastMax, app>>
    \/ /\ Running
       /\ AdvanceTime(TimeStep) /\ Log("advanceTime", 0) /\ UNCHANGED <<lastMax, app>>
    \/ /\ Running
       /\ Tick(<<>>, <<>>) /\ LogTick(<<>>) /\ UNCHANGED <<lastMax, app>>
    \/ \E s \in Sizes :
          /\ Running
          /\ Resize(s[1], s[2], 1)
          /\ Log("resize", Handled(s[1], s[2], 1)) /\ UNCHANGED <<lastMax, app>>
    \/ \E c \in Configs :
          /\ Running
          /\ UpdateConfig(c)
          /\ Log("updateConfig", 0) /\ UNCHANGED <<lastMax, app>>

SpecLifecycle == InitUnmounted /\ [][NextLifecycle]_vars

----------------------------------------------------------------------------
(* Spawns: texts with and without spaces, in two colours, under configs    *)
(* with spacing below, at and above 1                                      *)

SpawnTexts == {<<>>, <<" ">>, <<" ", " ">>, <<"a">>, <<"h", "i">>,
               <<"a", " ", "b">>}

SpawnColors == {DEFAULT_COLOR, "#ff0000"}

SpawnConfigs ==
    {[InitialConfig EXCEPT !.fontSize = f, !.spacing = sp] :
        f \in {10, 20}, sp \in {500, 1000, 2000}}

NextSpawn ==
    \/ \E text \in SpawnTexts, color \in SpawnColors :
          /\ AddText(text, 100, 100, color, 0, 0)
          /\ Log("addText", [text |-> text, color |-> color])
          /\ UNCHANGED <<lastMax, app>>
    \/ \E c \in SpawnConfigs :
          /\ UpdateConfig(c)
          /\ Log("updateConfig", Rescaled(c)) /\ UNCHANGED <<lastMax, app>>
    \/ ClearWorld /\ Log("clearWorld", 0) /\ UNCHANGED <<lastMax, app>>

SpecSpawn == Init /\ [][NextSpawn]_vars

----------------------------------------------------------------------------
(* The eviction example: letters spawned one at a time into an empty world, *)
(* every spawn followed at once by pruneBodies(EvictMax), while time passes *)
(* and the engine steps                                                     *)

\* a spawn is waiting for its prune
SpawnPending == lastOp.name = "addText"

NextEvict ==
    \/ /\ ~SpawnPending
       /\ nextId <= MaxTyped
       /\ SpawnText(<<"a">>, 100, 100, DEFAULT_COLOR, 0, 0)
       /\ Log("addText", 0) /\ UNCHANGED <<lastMax, app>>
    \/ /\ SpawnPending
       /\ PruneBodies(EvictMax)
       /\ Log("pruneBodies", EvictMax) /\ UNCHANGED <<lastMax, app>>
    \/ /\ ~SpawnPending
       /\ AdvanceTime(TimeStep)
       /\ Log("advanceTime", 0) /\ UNCHANGED <<lastMax, app>>
    \/ /\ ~SpawnPending
       /\ Tick(<<>>, <<>>) /\ LogTick(<<>>) /\ UNCHANGED <<lastMax, app>>

SpecEvict == Init /\ [][NextEvict]_vars

----------------------------------------------------------------------------
(* Physics steps while letters fade: the engine moves the letters and       *)
(* starts collisions among the bodies of its world, while the caller prunes *)
(* and time passes                                                          *)

\* px a falling letter moves in one step, and the height below which the
\* letters of the model have come to rest
FallStep == 10
RestY == 110

\* the integration of a step: every letter of bs above RestY falls by FallStep
Fall(bs) ==
    LET falling == {b \in Range(Letters(bs)) : b.y < RestY * PX}
    IN [id \in Ids(SelectSeq(bs, LAMBDA b : b \in falling)) |->
          LET b == CHOOSE c \in falling : c.id = id
          IN <<b.x, b.y + FallStep * PX, b.vx, b.vy>>]

\* event.pairs of a collisionStart event with one pair, among the letters and
\* the ground that are in the world when the step begins
StepPairs ==
    LET ids == {id \in Ids(bodies) : id > 0 \/ id = -1}
    IN {<<p>> : p \in {q \in ids \X ids : q[1] < q[2] /\ q[2] > 0}}

NextStep ==
    \/ /\ nextId <= MaxColliders
       /\ AddText(<<"a">>, 100, 100, DEFAULT_COLOR, 0, 0)
       /\ Log("addText", 0) /\ UNCHANGED <<lastMax, app>>
    \/ \E maxCount \in {0, 1} :
          /\ PruneBodies(maxCount)
          /\ Log("pruneBodies", maxCount) /\ UNCHANGED <<lastMax, app>>
    \/ AdvanceTime(TimeStep) /\ Log("advanceTime", 0) /\ UNCHANGED <<lastMax, app>>
    \/ \E pairs \in {<<>>} \cup StepPairs :
          /\ Tick(Fall(Sweep(bodies, now)), pairs)
          /\ LogTick(pairs) /\ UNCHANGED <<lastMax, app>>

SpecStep == Init /\ [][NextStep]_vars

----------------------------------------------------------------------------
(* Fading to the end: the runner keeps stepping the engine and the clock    *)
(* keeps running while letters are spawned and pruned, the scene is resized *)
(* and the config changes                                                   *)

\* one step of the runner
StepFade == Tick(<<>>, <<>>) /\ LogTick(<<>>) /\ UNCHANGED <<lastMax, app>>

\* Date.now() moves on
ClockFade ==
    AdvanceTime(TimeStep) /\ Log("advanceTime", 0) /\ UNCHANGED <<lastMax, app>>

\* A prune happens while the clock of the model can still run for
\* FADE_DURATION afterwards.
NextFade ==
    \/ /\ nextId <= MaxPlaced
       /\ AddText(<<"a">>, 100, 100, DEFAULT_COLOR, 0, 0)
       /\ Log("addText", 0) /\ UNCHANGED <<lastMax, app>>
    \/ \E maxCount \in {0, 1} :
          /\ now + FADE_DURATION <= MaxTime
          /\ PruneBodies(maxCount)
          /\ Log("pruneBodies", maxCount) /\ UNCHANGED <<lastMax, app>>
    \/ ClockFade
    \/ StepFade
    \/ \E s \in Sizes :
          /\ Resize(s[1], s[2], 1)
          /\ Log("resize", Handled(s[1], s[2], 1)) /\ UNCHANGED <<lastMax, app>>
    \/ \E c \in Configs :
          /\ UpdateConfig(c)
          /\ Log("updateConfig", 0) /\ UNCHANGED <<lastMax, app>>

\* Matter.Runner.run keeps calling Engine.update on every animation frame,
\* and time passes
SpecFade ==
    Init /\ [][NextFade]_vars /\ WF_vars(StepFade) /\ WF_vars(ClockFade)

----------------------------------------------------------------------------
(* Observer noise: resize notifications that differ from the render size by *)
(* nothing, by one pixel or by two, at the same or another pixel density    *)

\* contentRect of a resize entry, px
NoiseSizes == {<<SceneW, SceneH>>, <<SceneW + 1, SceneH - 1>>,
               <<SceneW + 2, SceneH>>}

\* window.devicePixelRatio
PixelRatios == {1, 2}

NextNoise ==
    \/ \E x \in {100, 390} :
          /\ nextId <= MaxPlaced
          /\ AddText(<<"a">>, x, 100, DEFAULT_COLOR, 0, 0)
          /\ Log("addText", 0) /\ UNCHANGED <<lastMax, app>>
    \/ \E s \in NoiseSizes, dpr \in PixelRatios :
          /\ Resize(s[1], s[2], dpr)
          /\ Log("resize", [width |-> s[1], height |-> s[2], pixelRatio |-> dpr])
          /\ UNCHANGED <<lastMax, app>>

SpecNoise == Init /\ [][NextNoise]_vars

----------------------------------------------------------------------------
(* Materials: config updates that change friction and restitution, with and *)
(* without a change of size, between spawns and prunes                      *)

\* friction 0.5 or 0, restitution 0.6 or 1.2, spacing 1 or 2
MaterialConfigs ==
    {[InitialConfig EXCEPT !.friction = f, !.restitution = r, !.spacing = sp] :
        f \in {5, 0}, r \in {6, 12}, sp \in {1000, 2000}}

NextMaterial ==
    \/ /\ nextId <= MaxPlaced
       /\ AddText(<<"a">>, 100, 100, DEFAULT_COLOR, 0, 0)
       /\ Log("addText", 0) /\ UNCHANGED <<lastMax, app>>
    \/ \E maxCount \in {0, 1} :
          /\ PruneBodies(maxCount)
          /\ Log("pruneBodies", maxCount) /\ UNCHANGED <<lastMax, app>>
    \/ \E c \in MaterialConfigs :
          /\ UpdateConfig(c)
          /\ Log("updateConfig", Rescaled(c)) /\ UNCHANGED <<lastMax, app>>

SpecMaterial == Init /\ [][NextMaterial]_vars

----------------------------------------------------------------------------
(* Layout: texts with and without spaces spawned at a given place and at    *)
(* the default place, under configs with spacing below, at and above 1      *)

NextLayout ==
    \/ \E text \in SpawnTexts, start \in {100, Undefined}, rndX \in {9} :
          /\ AddText(text, start, start, DEFAULT_COLOR, rndX, 0)
          /\ Log("addText", [text |-> text, start |-> start, rndX |-> rndX])
          /\ UNCHANGED <<lastMax, app>>
    \/ \E c \in SpawnConfigs :
          /\ UpdateConfig(c)
          /\ Log("updateConfig", Rescaled(c)) /\ UNCHANGED <<lastMax, app>>
    \/ ClearWorld /\ Log("clearWorld", 0) /\ UNCHANGED <<lastMax, app>>

SpecLayout == Init /\ [][NextLayout]_vars

----------------------------------------------------------------------------
(* App, the caller: the auto-typer, the keydown handler and the change      *)
(* handler of the hidden input, which spawn and prune; the clear button and *)
(* the maxParticles slider                                                  *)

\* getCurrentColor()
GetCurrentColor(a) ==
    IF Len(a.paletteColors) = 0 THEN SeedColor
    ELSE a.paletteColors[(a.colorIndex % Len(a.paletteColors)) + 1]

\* resetCursorForNewWord(); rnd in 0..9 stands for Math.random(), and
\* window.innerWidth is the width of the scene
ResetCursorForNewWord(a, rnd) ==
    LET width == renderOptions.width
    IN [a EXCEPT !.colorIndex =
                    (a.colorIndex + 1) % Max(1, Len(a.paletteColors)),
                 !.cursorX = IF a.anchor # <<>> THEN a.anchor[1]
                             ELSE (width * (10 + 6 * rnd)) \div 100,
                 !.cursorY = IF a.anchor # <<>> THEN a.anchor[2]
                             ELSE DEFAULT_DROP_Y]

\* if (now - lastTypeTimeRef.current > WORD_PAUSE_MS) resetCursorForNewWord();
\* if (cursorXRef.current > width * 0.9) resetCursorForNewWord();
\* with first: the auto-typer's extra test autoTypeIndexRef.current === 0
PlaceCursor(a, first, rnd) ==
    LET a1 == IF first \/ now - a.lastTypeTime > WORD_PAUSE_MS
              THEN ResetCursorForNewWord(a, rnd) ELSE a
    IN IF a1.cursorX * 10 > renderOptions.width * 9
       THEN ResetCursorForNewWord(a1, rnd) ELSE a1

\* the caller forgets pruneBodies after addText
SpawnAndPrune_NoPrune(char, a, maxCount) ==
    /\ IF ~engineRef
       THEN UNCHANGED <<bodies, nextId>>
       ELSE /\ bodies' = bodies \o SpawnedBodies(<<char>>, a.cursorX, a.cursorY,
                                                  GetCurrentColor(a), 0, 0)
            /\ nextId' = nextId + 1
    /\ UNCHANGED <<engineRef, constraints, renderOptions, config,
                   prevEffectiveSizeRef, onCollisionRef, now, onReadyCalls,
                   onCollisionCalls>>

\* physicsRef.current.addText(char, cursorX, cursorY, getCurrentColor());
\* physicsRef.current.pruneBodies(maxParticles);   char is not a space
SpawnAndPrune(char, a, maxCount) ==
    /\ IF ~engineRef
       THEN UNCHANGED <<bodies, nextId>>
       ELSE /\ bodies' = Pruned(bodies \o SpawnedBodies(<<char>>, a.cursorX,
                                   a.cursorY, GetCurrentColor(a), 0, 0),
                                maxCount, now)
            /\ nextId' = nextId + 1
    /\ UNCHANGED <<engineRef, constraints, renderOptions, config,
                   prevEffectiveSizeRef, onCollisionRef, now, onReadyCalls,
                   onCollisionCalls>>

\* a handler that touches no state of the component
NoSpawn ==
    UNCHANGED <<engineRef, bodies, constraints, renderOptions, config,
                prevEffectiveSizeRef, onCollisionRef, now, nextId, onReadyCalls,
                onCollisionCalls>>

\* the handle setTimeout returns: a positive number no pending timeout has
SetTimeout(pending) ==
    CHOOSE h \in 1..(Cardinality(pending) + 1) :
       h \notin pending /\ \A k \in 1..(h - 1) : k \in pending

\* if (autoTypeTimeoutRef.current) clearTimeout(autoTypeTimeoutRef.current)
ClearTimeout(a) == [a EXCEPT !.timeouts = @ \ {a.autoTypeTimeoutRef}]

\* typeNextChar() with the maxParticles of its closure; its last statement
\* is autoTypeTimeoutRef.current = setTimeout(typeNextChar, delay)
TypeNextChar(a, maxParticles, rnd) ==
    LET char == a.autoText[(a.autoTypeIndex % Len(a.autoText)) + 1]
        a2 == PlaceCursor(a, a.autoTypeIndex = 0, rnd)
        h == SetTimeout(a.timeouts)
        done(a3) == [a3 EXCEPT !.lastTypeTime = now,
                               !.autoTypeIndex = a.autoTypeIndex + 1,
                               !.timeouts = a.timeouts \cup {h},
                               !.autoTypeTimeoutRef = h]
    IN /\ a.autoTypeIndex < MaxAutoIndex
       /\ IF char # " "
          THEN /\ nextId <= MaxPlaced
               /\ SpawnAndPrune(char, a2, maxParticles)
               /\ app' = done([a2 EXCEPT !.cursorX = a2.cursorX + CHAR_SPACING])
          ELSE /\ NoSpawn
               /\ app' = done(ResetCursorForNewWord(a2, rnd))

\* a pending timeout of the auto-typer fires and calls typeNextChar; the
\* callback does not read isAutoTyping
AutoTypeTimeout(rnd) ==
    \E h \in app.timeouts :
       TypeNextChar([app EXCEPT !.timeouts = @ \ {h}], app.maxParticles, rnd)

\* the effect installs no cleanup, so a restart leaves the timeout of the
\* run before pending
AutoTypeEffect_NoCleanup(wasTyping, a, rnd) ==
    IF a.isAutoTyping
    THEN TypeNextChar(a, a.maxParticles, rnd)
    ELSE NoSpawn /\ app' = ClearTimeout(a)

\* the auto-type effect after a commit that changed one of its dependencies
\* (isAutoTyping, wpm, maxParticles, autoText, getCurrentColor), a being the
\* state of the new render and wasTyping the isAutoTyping of the run before:
\* that run's cleanup, which exists when it did not return early, clears
\* the timeout; then the effect either clears the timeout and returns or
\* calls typeNextChar() at once
AutoTypeEffect(wasTyping, a, rnd) ==
    LET cleaned == IF wasTyping THEN ClearTimeout(a) ELSE a
    IN IF a.isAutoTyping
       THEN TypeNextChar(cleaned, a.maxParticles, rnd)
       ELSE NoSpawn /\ app' = ClearTimeout(cleaned)

\* toggleAutoType, and the auto-type effect of the commit that follows
ToggleAutoType(rnd) ==
    AutoTypeEffect(app.isAutoTyping,
                   [app EXCEPT !.isAutoTyping = ~app.isAutoTyping], rnd)

\* onMaxParticlesChange(m), and the auto-type effect of the commit that
\* follows: maxParticles is a dependency, so a running auto-typer restarts
\* with the new value; setting the value it has commits nothing
SetMaxParticles(m, rnd) ==
    IF m = app.maxParticles
    THEN NoSpawn /\ UNCHANGED app
    ELSE AutoTypeEffect(app.isAutoTyping, [app EXCEPT !.maxParticles = m], rnd)

\* onWpmChange with another value, and the auto-type effect of the commit
\* that follows; wpm sets the delay of the timeouts alone, which the model
\* leaves open
SetWpm(rnd) == AutoTypeEffect(app.isAutoTyping, app, rnd)

\* the test of the hidden input is missing: the handler takes its keys too
HandleKeyDown_NoHiddenCheck(key, target, rnd) ==
    LET a2 == PlaceCursor(app, FALSE, rnd)
    IN IF target = "input"
       THEN NoSpawn /\ UNCHANGED app
       ELSE IF key = <<"Enter">>
       THEN NoSpawn /\ app' = [app EXCEPT !.lastTypeTime = Epoch]
       ELSE IF Len(key) # 1
       THEN NoSpawn /\ app' = a2
       ELSE IF key = <<" ">>
       THEN /\ NoSpawn
            /\ app' = [a2 EXCEPT !.cursorX = a2.cursorX + CHAR_SPACING,
                                 !.lastTypeTime = now]
       ELSE /\ nextId <= MaxPlaced
            /\ SpawnAndPrune(key[1], a2, app.maxParticles)
            /\ app' = [a2 EXCEPT !.cursorX = a2.cursorX + CHAR_SPACING,
                                 !.lastTypeTime = now]

\* handleKeyDown(e): target is "body", "hidden" (the hidden input) or
\* "input" (another input)
HandleKeyDown(key, target, rnd) ==
    LET a2 == PlaceCursor(app, FALSE, rnd)
    IN IF target = "input" \/ (target = "hidden" /\ Len(key) = 1)
       THEN NoSpawn /\ UNCHANGED app
       ELSE IF key = <<"Enter">>
       THEN NoSpawn /\ app' = [app EXCEPT !.lastTypeTime = Epoch]
       ELSE IF Len(key) # 1
       THEN NoSpawn /\ app' = a2
       ELSE IF key = <<" ">>
       THEN /\ NoSpawn
            /\ app' = [a2 EXCEPT !.cursorX = a2.cursorX + CHAR_SPACING,
                                 !.lastTypeTime = now]
       ELSE /\ nextId <= MaxPlaced
            /\ SpawnAndPrune(key[1], a2, app.maxParticles)
            /\ app' = [a2 EXCEPT !.cursorX = a2.cursorX + CHAR_SPACING,
                                 !.lastTypeTime = now]

\* handleInputChange(e): val is e.target.value
HandleInputChange(val, rnd) ==
    LET a2 == PlaceCursor(app, FALSE, rnd)
        char == val[Len(val)]
    IN IF Len(val) = 0
       THEN NoSpawn /\ UNCHANGED app
       ELSE IF char = " "
       THEN /\ NoSpawn
            /\ app' = [a2 EXCEPT !.cursorX = a2.cursorX + CHAR_SPACING,
                                 !.lastTypeTime = now]
       ELSE /\ nextId <= MaxPlaced
            /\ SpawnAndPrune(char, a2, app.maxParticles)
            /\ app' = [a2 EXCEPT !.cursorX = a2.cursorX + CHAR_SPACING,
                                 !.lastTypeTime = now]

\* handleClear()
HandleClear(rnd) ==
    /\ ClearWorld
    /\ app' = ResetCursorForNewWord(
                 [app EXCEPT !.autoTypeIndex = 0, !.anchor = <<>>,
                             !.cursorY = DEFAULT_DROP_Y], rnd)

\* keys, values of the hidden input, event targets, Math.random() draws
Keys == {<<"a">>, <<" ">>, <<"Enter">>}

InputValues == {<<>>, <<"a">>, <<" ">>}

Targets == {"body", "hidden", "input"}

Rnds == {9}

\* the settings of the maxParticles slider
ParticleCaps == 1..MaxCount

\* 1 when the step has added a letter to the world
SpawnedOne == nextId' - nextId

NextApp ==
    \/ \E rnd \in Rnds :
          AutoTypeTimeout(rnd) /\ Log("typeNextChar", SpawnedOne)
          /\ UNCHANGED lastMax
    \/ \E rnd \in Rnds :
          ToggleAutoType(rnd) /\ Log("toggleAutoType", SpawnedOne)
          /\ UNCHANGED lastMax
    \/ \E m \in ParticleCaps, rnd \in Rnds :
          SetMaxParticles(m, rnd) /\ Log("setMaxParticles", SpawnedOne)
          /\ UNCHANGED lastMax
    \/ \E key \in Keys, target \in Targets, rnd \in Rnds :
          HandleKeyDown(key, target, rnd) /\ Log("handleKeyDown", SpawnedOne)
          /\ UNCHANGED lastMax
    \/ \E val \in InputValues, rnd \in Rnds :
          HandleInputChange(val, rnd) /\ Log("handleInputChange", SpawnedOne)
          /\ UNCHANGED lastMax
    \/ \E rnd \in Rnds :
          HandleClear(rnd) /\ Log("handleClear", 0) /\ UNCHANGED lastMax
    \/ AdvanceTime(3 * TimeStep) /\ Log("advanceTime", 0)
       /\ UNCHANGED <<lastMax, app>>

SpecApp == Init /\ [][NextApp]_vars

\* a key press dispatches keydown on the window, and, when the hidden input
\* has the focus and the key is a character, an input event on the hidden
\* input next, before any other event: the input's value is that character,
\* handleInputChange having emptied it after the character before
InputPending ==
    /\ lastOp.name = "handleKeyDown"
    /\ lastOp.arg.target = "hidden"
    /\ Len(lastOp.arg.key) = 1

\* the record of a key press: its key, the element with the focus, and the
\* letters its handlers have spawned so far
KeyPress(key, target, spawned) ==
    [key |-> key, target |-> target, spawned |-> spawned]

NextKeys ==
    \/ \E key \in Keys, target \in Targets, rnd \in Rnds :
          /\ ~InputPending
          /\ HandleKeyDown(key, target, rnd)
          /\ Log("handleKeyDown", KeyPress(key, target, SpawnedOne))
          /\ UNCHANGED lastMax
    \/ \E rnd \in Rnds :
          /\ InputPending
          /\ HandleInputChange(lastOp.arg.key, rnd)
          /\ Log("handleInputChange",
                 KeyPress(lastOp.arg.key, "hidden",
                          lastOp.arg.spawned + SpawnedOne))
          /\ UNCHANGED lastMax
    \/ /\ ~InputPending
       /\ AdvanceTime(3 * TimeStep) /\ Log("advanceTime", 0)
       /\ UNCHANGED <<lastMax, app>>

SpecKeys == Init /\ [][NextKeys]_vars

----------------------------------------------------------------------------
(* The network collaborators of App: the colour scheme request and the poem *)
(* request, with every way they can end, and the handlers that use their    *)
(* results                                                                  *)

\* hex.replace('#', ''), for the seed colours of the model
StripHash(hex) == IF hex = "#ef4444" THEN "ef4444" ELSE hex

\* `#${cleanHex}`
WithHash(cleanHex) == "#" \o cleanHex

\* One entry of data.colors: hex tells whether c.hex is an object, value is
\* c.hex.value.  An entry that is null or has no hex object makes
\* c.hex.value throw a TypeError.
ColorEntry(hex, value) == [hex |-> hex, value |-> value]

\* How the request can end.  fetch: "rejects" (network error), "notOk" or
\* "ok"; json: response.json() "rejects" or gives a "value"; hasColors:
\* data.colors is an array; colors: its entries.
ColorResponse(fetch, json, hasColors, colors) ==
    [fetch |-> fetch, json |-> json, hasColors |-> hasColors, colors |-> colors]

\* the statements in the try block throw
ColorRequestThrows(response) ==
    \/ response.fetch = "rejects"
    \/ response.fetch = "notOk"
    \/ response.json = "rejects"
    \/ /\ response.hasColors
       /\ \E i \in 1..Len(response.colors) : ~response.colors[i].hex

\* there is no catch: what the try block throws rejects the promise
FetchColorScheme_NoCatch(hex, response) ==
    LET cleanHex == StripHash(hex)
    IN IF ColorRequestThrows(response)
       THEN [state |-> "rejected", value |-> <<>>]
       ELSE IF response.hasColors
       THEN [state |-> "fulfilled",
             value |-> [i \in 1..Len(response.colors) |->
                           response.colors[i].value]]
       ELSE [state |-> "fulfilled", value |-> <<WithHash(cleanHex)>>]

\* fetchColorScheme(hex, mode): the promise it returns, settled
FetchColorScheme(hex, response) ==
    LET cleanHex == StripHash(hex)
    IN IF ColorRequestThrows(response)
       THEN [state |-> "fulfilled", value |-> <<WithHash(cleanHex)>>]
       ELSE IF response.hasColors
       THEN [state |-> "fulfilled",
             value |-> [i \in 1..Len(response.colors) |->
                           response.colors[i].value]]
       ELSE [state |-> "fulfilled", value |-> <<WithHash(cleanHex)>>]

\* the two literals generateFallingPoem falls back to, by their first letter
PoemWhenEmpty == <<"F">>
PoemOnError == <<"T">>

\* How generateContent can end: call "rejects" or is "ok"; hasText:
\* response.text is a string; text: its characters.
PoemResponse(call, hasText, text) ==
    [call |-> call, hasText |-> hasText, text |-> text]

\* generateFallingPoem(): the promise it returns, settled
GenerateFallingPoem(response) ==
    [state |-> "fulfilled",
     value |-> IF response.call = "rejects" THEN PoemOnError
               ELSE IF response.hasText /\ response.text # <<>>
               THEN response.text
               ELSE PoemWhenEmpty]

\* the timer of the colour scheme effect fires:
\* const colors = await fetchColorScheme(seedColor, schemeMode);
\* setPaletteColors(colors);
\* the new array gives getCurrentColor another identity, a dependency of
\* the auto-type effect
FetchColors(response) ==
    LET colors == FetchColorScheme(SeedColor, response)
    IN IF colors.state = "fulfilled"
       THEN \E rnd \in Rnds :
               AutoTypeEffect(app.isAutoTyping,
                   [app EXCEPT !.paletteColors = colors.value,
                               !.colorIndex =
                                   app.colorIndex % Max(1, Len(colors.value))],
                   rnd)
       ELSE NoSpawn /\ UNCHANGED app

\* handleRegeneratePoem()
\* handleRegeneratePoem(), and the auto-type effect of the commit that
\* follows when the poem is another text
HandleRegeneratePoem(response) ==
    LET newPoem == GenerateFallingPoem(response)
        a == [app EXCEPT !.autoText = newPoem.value, !.autoTypeIndex = 0]
    IN IF newPoem.state = "fulfilled" /\ newPoem.value # <<>>
       THEN IF newPoem.value # app.autoText
            THEN \E rnd \in Rnds : AutoTypeEffect(app.isAutoTyping, a, rnd)
            ELSE NoSpawn /\ app' = a
       ELSE NoSpawn /\ UNCHANGED app

\* a colour of the scheme service
SchemeColor == "#3b82f6"

\* the ends of the colour request: network error, status not ok, a body that
\* is not JSON, no colors array, an empty array, a well-formed entry, an
\* entry without a hex object after a well-formed one, and entries whose hex
\* object has no value or the value null
ColorResponses ==
    {ColorResponse("rejects", "value", FALSE, <<>>),
     ColorResponse("notOk", "value", FALSE, <<>>),
     ColorResponse("ok", "rejects", FALSE, <<>>),
     ColorResponse("ok", "value", FALSE, <<>>),
     ColorResponse("ok", "value", TRUE, <<>>),
     ColorResponse("ok", "value", TRUE, <<ColorEntry(TRUE, SchemeColor)>>),
     ColorResponse("ok", "value", TRUE, <<ColorEntry(TRUE, SchemeColor),
                                          ColorEntry(FALSE, JsUndefined)>>),
     ColorResponse("ok", "value", TRUE, <<ColorEntry(TRUE, JsUndefined)>>),
     ColorResponse("ok", "value", TRUE, <<ColorEntry(TRUE, JsNull)>>)}

\* the ends of the poem request: an error, no text, an empty text, a text
PoemResponses ==
    {PoemResponse("rejects", FALSE, <<>>), PoemResponse("ok", FALSE, <<>>),
     PoemResponse("ok", TRUE, <<>>), PoemResponse("ok", TRUE, <<"b", " ">>)}

NextNet ==
    \/ \E response \in ColorResponses :
          /\ FetchColors(response)
          /\ Log("fetchColorScheme", FetchColorScheme(SeedColor, response))
          /\ UNCHANGED lastMax
    \/ \E response \in PoemResponses :
          /\ HandleRegeneratePoem(response)
          /\ Log("generateFallingPoem", GenerateFallingPoem(response))
          /\ UNCHANGED lastMax
    \/ \E rnd \in Rnds :
          /\ HandleKeyDown(<<"a">>, "body", rnd)
          /\ Log("handleKeyDown", SpawnedOne) /\ UNCHANGED lastMax

SpecNet == Init /\ [][NextNet]_vars

\* the auto-typer and every change of a dependency of its effect: the
\* colour request ends with an error or with one colour
AutoColorResponses ==
    {ColorResponse("rejects", "value", FALSE, <<>>),
     ColorResponse("ok", "value", TRUE, <<ColorEntry(TRUE, SchemeColor)>>)}

NextAuto ==
    \/ \E rnd \in Rnds :
          AutoTypeTimeout(rnd) /\ Log("typeNextChar", SpawnedOne)
          /\ UNCHANGED lastMax
    \/ \E rnd \in Rnds :
          ToggleAutoType(rnd) /\ Log("toggleAutoType", SpawnedOne)
          /\ UNCHANGED lastMax
    \/ \E m \in ParticleCaps, rnd \in Rnds :
          SetMaxParticles(m, rnd) /\ Log("setMaxParticles", SpawnedOne)
          /\ UNCHANGED lastMax
    \/ \E rnd \in Rnds :
          SetWpm(rnd) /\ Log("setWpm", SpawnedOne) /\ UNCHANGED lastMax
    \/ \E response \in AutoColorResponses :
          FetchColors(response) /\ Log("fetchColorScheme", SpawnedOne)
          /\ UNCHANGED lastMax
    \/ \E response \in PoemResponses :
          HandleRegeneratePoem(response)
          /\ Log("generateFallingPoem", SpawnedOne) /\ UNCHANGED lastMax

SpecAuto == Init /\ [][NextAuto]_vars

----------------------------------------------------------------------------
(* AudioService                                                            *)

\* init(): creates the context and the reverb nodes when there is none
AudioInit(au) == [au EXCEPT !.ctx = TRUE]

\* setMuted(muted)
SetMuted(au, muted) == [au EXCEPT !.isMuted = muted]

\* changeScale()
ChangeScale(au) ==
    [au EXCEPT !.currentChordIndex = (au.currentChordIndex + 1)
                                        % Len(CHORD_PROGRESSION),
               !.arpeggioIndex = 0,
               !.isArpeggioAscending = TRUE]

\* the index runs past the top of the chord and below its bottom
AdvanceArpeggio_NoTurn(au) ==
    IF au.isArpeggioAscending
    THEN [au EXCEPT !.arpeggioIndex = au.arpeggioIndex + 1]
    ELSE [au EXCEPT !.arpeggioIndex = au.arpeggioIndex - 1]

\* playTypingSound, "2. Advance the index for next time"
AdvanceArpeggio(au) ==
    LET currentChord == CHORD_PROGRESSION[au.currentChordIndex + 1]
    IN IF au.isArpeggioAscending
       THEN IF au.arpeggioIndex + 1 >= Len(currentChord)
            THEN [au EXCEPT !.arpeggioIndex = Len(currentChord) - 2,
                            !.isArpeggioAscending = FALSE]
            ELSE [au EXCEPT !.arpeggioIndex = au.arpeggioIndex + 1]
       ELSE IF au.arpeggioIndex - 1 < 0
            THEN [au EXCEPT !.arpeggioIndex = 1,
                            !.isArpeggioAscending = TRUE]
            ELSE [au EXCEPT !.arpeggioIndex = au.arpeggioIndex - 1]

\* playTypingSound() sounds a note unless muted or without a context
Sounds(au) == ~au.isMuted /\ au.ctx

\* playTypingSound(): the service afterwards
PlayTypingSound(au) == IF Sounds(au) THEN AdvanceArpeggio(au) ELSE au

\* const semitone = currentChord[this.arpeggioIndex]; JsUndefined outside
\* the chord
Semitone(au) ==
    LET currentChord == CHORD_PROGRESSION[au.currentChordIndex + 1]
    IN IF au.arpeggioIndex \in 0..(Len(currentChord) - 1)
       THEN currentChord[au.arpeggioIndex + 1]
       ELSE JsUndefined

\* what the calls so far have played: the number of notes, the number of
\* notes since the last changeScale, and the index and semitone of the last
\* note (note -1 when the last call played none)
Played ==
    IF lastOp.name = "mount"
    THEN [notes |-> 0, sinceScale |-> 0, note |-> -1, semitone |-> JsUndefined]
    ELSE lastOp.arg

\* a call of the service that plays nothing
Silent == [Played EXCEPT !.note = -1, !.semitone = JsUndefined]

NextAudio ==
    \/ /\ NoSpawn
       /\ app' = [app EXCEPT !.audioService = AudioInit(@)]
       /\ Log("init", Silent) /\ UNCHANGED lastMax
    \/ \E muted \in BOOLEAN :
          /\ NoSpawn
          /\ app' = [app EXCEPT !.audioService = SetMuted(@, muted)]
          /\ Log("setMuted", Silent) /\ UNCHANGED lastMax
    \/ /\ NoSpawn
       /\ app' = [app EXCEPT !.audioService = ChangeScale(@)]
       /\ Log("changeScale", [Silent EXCEPT !.sinceScale = 0])
       /\ UNCHANGED lastMax
    \/ /\ Played.notes < MaxNotes
       /\ NoSpawn
       /\ app' = [app EXCEPT !.audioService = PlayTypingSound(@)]
       /\ Log("playTypingSound",
              IF Sounds(app.audioService)
              THEN [notes |-> Played.notes + 1,
                    sinceScale |-> Played.sinceScale + 1,
                    note |-> app.audioService.arpeggioIndex,
                    semitone |-> Semitone(app.audioService)]
              ELSE Silent)
       /\ UNCHANGED lastMax

SpecAudio == Init /\ [][NextAudio]_vars

----------------------------------------------------------------------------
(* Claims *)

\* C20: every handler of the caller that spawns a letter prunes right after
\* it with its maxParticles: whenever a step of the caller has added a body
\* to the world, the letters not yet fading number at most maxParticles, and
\* the surplus it found has started fading at that very moment
C20_CallerPrunes ==
    [][nextId' # nextId =>
          /\ Len(ActiveBodies(bodies')) <= app'.maxParticles
          /\ \A i \in 1..Len(bodies) :
                (bodies[i].dyingSince = NoTime
                 /\ \E j \in 1..Len(bodies') :
                       /\ bodies'[j].id = bodies[i].id
                       /\ bodies'[j].dyingSince # NoTime)
                => \E j \in 1..Len(bodies') :
                      /\ bodies'[j].id = bodies[i].id
                      /\ bodies'[j].dyingSince = now']_vars

\* the hidden input has spawned a letter into a world already at its cap, so
\* that the oldest letter started fading then
C20_Witness ==
    /\ lastOp.name = "handleInputChange"
    /\ lastOp.arg = 1
    /\ AliveCount = app.maxParticles
    /\ \E i \in 1..Len(bodies) : bodies[i].dyingSince = now
    /\ now > 0


LetterSet == Range(Letters(bodies))

DyingSet == {b \in LetterSet : b.isDying}

InWorldNext(id) == id \in Ids(Letters(bodies'))

BodyNext(id) == CHOOSE b \in Range(bodies') : b.id = id

\* C1 as stated: in every reachable state the number of glyph bodies not
\* marked dying is at most the most recently supplied maxCount.
C1_PopulationBound == lastMax # NoMax => AliveCount <= lastMax

\* C1 as amended: right after every pruneBodies(maxCount) the number of glyph
\* bodies not marked dying is at most maxCount, and no handler other than
\* addText makes that number grow.
C1_BoundAfterPrune ==
    /\ [](lastOp.name = "pruneBodies" => AliveCount <= lastOp.arg)
    /\ [][lastOp'.name # "addText"
            => Len(ActiveBodies(bodies')) <= AliveCount]_vars

\* pruneBodies(1) has just marked a body and left one alive
C1_Witness ==
    /\ lastOp.name = "pruneBodies"
    /\ lastOp.arg = 1
    /\ AliveCount = 1
    /\ \E b \in DyingSet : b.dyingSince = now

\* the alive letters have pairwise distinct createdAt
DistinctTimestamps(bs) ==
    \A i, j \in 1..Len(bs) : i # j => bs[i].createdAt # bs[j].createdAt

\* C2: when pruneBodies(k) runs on n > k alive glyph bodies spawned at strictly
\* increasing timestamps, the bodies it marks dying are exactly the n-k with
\* the smallest createdAt, whatever resizes, clears, sweeps, config updates and
\* earlier prunes came before.
C2_EvictionOrder ==
    [][LET alive == ActiveBodies(bodies)
           n == Len(alive)
           k == lastOp'.arg
           marked == {id \in Ids(alive) : BodyNext(id).isDying}
       IN (lastOp'.name = "pruneBodies" /\ k < n /\ DistinctTimestamps(alive))
          => /\ Cardinality(marked) = n - k
             /\ \A a, c \in Range(alive) :
                   (a.id \in marked /\ c.id \notin marked)
                   => a.createdAt < c.createdAt
             /\ \A b \in LetterSet :
                   /\ InWorldNext(b.id)
                   /\ b.isDying => BodyNext(b.id) = b]_vars

\* three letters spawned at three different times, a handled resize behind
\* them, and pruneBodies(1) has just marked the two oldest
C2_Witness ==
    /\ lastOp.name = "pruneBodies"
    /\ lastOp.arg = 1
    /\ renderOptions.width # SceneW
    /\ Len(Letters(bodies)) = 3
    /\ DistinctTimestamps(Letters(bodies))
    /\ Cardinality({b \in DyingSet : b.dyingSince = now}) = 2
    /\ AliveCount = 1

\* C3: a glyph body that has left the world is never in it again, and a body
\* whose isDying is true never has isDying false again.
C3_MonotonicRemoval ==
    /\ [](removed \cap LetterIds = {})
    /\ [][\A b \in DyingSet :
             InWorldNext(b.id) => BodyNext(b.id).isDying]_vars

\* a dying letter has come through a handled resize, still dying, while
\* another letter has already been removed
C3_Witness ==
    /\ lastOp.name = "resize"
    /\ lastOp.arg = 1
    /\ DyingSet # {}
    /\ removed # {}

\* C4 as stated: a body marked dying at T is in the world at every time in
\* [T, T+600) whatever happens, and is gone once a physics step has run at a
\* time >= T+600.
C4_FadeDeterminism ==
    /\ [][\A b \in DyingSet :
             now' - b.dyingSince < FADE_DURATION => InWorldNext(b.id)]_vars
    /\ [](lastOp.name = "tick"
            => \A b \in DyingSet : now - b.dyingSince < FADE_DURATION)

\* C4 as amended: a body marked dying at T stays in the world, with the same
\* dyingSince, at every time in [T, T+600) unless clearWorld removes it; in
\* the world it is drawn (alpha > 0) exactly while now - T < 600; and it is
\* gone once a physics step has run at a time >= T+600.
C4_FadeUnlessCleared ==
    /\ [][\A b \in DyingSet :
             (now' - b.dyingSince < FADE_DURATION /\ lastOp'.name # "clearWorld")
             => /\ InWorldNext(b.id)
                /\ BodyNext(b.id).dyingSince = b.dyingSince]_vars
    /\ [](\A b \in DyingSet :
             Drawn(b, now) <=> now - b.dyingSince < FADE_DURATION)
    /\ [](lastOp.name = "tick"
            => \A b \in DyingSet : now - b.dyingSince < FADE_DURATION)

\* a physics step at T+600 has just removed a letter marked at T, while a
\* letter marked later is still fading in the world
C4_Witness ==
    /\ lastOp.name = "tick"
    /\ lastOp.gone > 0
    /\ \E b \in DyingSet : now - b.dyingSince = TimeStep

\* C7: a handled resize leaves the set of glyph-body identities as it was, each
\* identity once, alive and dying bodies alike.
C7_ResizePreservesIds ==
    [][(lastOp'.name = "resize" /\ lastOp'.arg = 1)
         => /\ Ids(Letters(bodies')) = LetterIds
            /\ Len(Letters(bodies')) = Cardinality(LetterIds)
            /\ Len(Letters(bodies)) = Cardinality(LetterIds)]_vars

\* a handled resize has just run on a world with an alive and a dying letter
C7_Witness ==
    /\ lastOp.name = "resize"
    /\ lastOp.arg = 1
    /\ DyingSet # {}
    /\ AliveCount > 0

\* the letters of the world that a pair of the step names and that had
\* hasCollided = false before the step
FreshTouched == {b \in LetterSet : b.id \in lastOp'.touched /\ ~b.hasCollided}

\* the letters whose hasCollided goes from false to true in the step
NewlyLatched ==
    {b \in LetterSet :
        ~b.hasCollided /\ InWorldNext(b.id) /\ BodyNext(b.id).hasCollided}

\* C5: one collisionStart event, whatever its pairs, invokes the supplied
\* onCollision callback once when a glyph body in its pairs had
\* hasCollided = false before the step and not at all otherwise; with no
\* callback supplied there is nothing to invoke.
C5_CollisionDebounce ==
    [][(lastOp'.name = "tick" /\ lastOp'.touched # {})
         => onCollisionCalls' - onCollisionCalls =
               IF FreshTouched # {} /\ onCollisionRef THEN 1 ELSE 0]_vars

\* one event whose pairs named two letters that had not collided: one call
C5_Witness ==
    /\ lastOp.name = "tick"
    /\ lastOp.arg = 1
    /\ onCollisionCalls = 1
    /\ Cardinality({id \in lastOp.touched : id > 0}) = 2
    /\ Cardinality({b \in LetterSet : b.hasCollided}) = 2

\* C6: a glyph body enters the world with hasCollided = false; a collisionStart
\* pair that names it leaves it with hasCollided = true; no handler turns
\* hasCollided back to false; every onCollision call comes with a body that
\* latches in that step, so the calls never outnumber the bodies spawned.
C6_FirstContactLatch ==
    /\ [][\A id \in Ids(Letters(bodies')) \ LetterIds :
             ~BodyNext(id).hasCollided]_vars
    /\ [][lastOp'.name = "tick"
            => \A id \in lastOp'.touched :
                  id > 0 => BodyNext(id).hasCollided]_vars
    /\ [][\A b \in LetterSet :
             (b.hasCollided /\ InWorldNext(b.id))
             => BodyNext(b.id).hasCollided]_vars
    /\ [][onCollisionCalls' - onCollisionCalls <= Cardinality(NewlyLatched)]_vars
    /\ [](onCollisionCalls <= nextId - 1)

\* a letter that latched on an earlier step is named again by the pairs of a
\* later step, which makes no call; it has since come through a prune
C6_Witness ==
    /\ lastOp.name = "tick"
    /\ lastOp.arg = 0
    /\ onCollisionRef
    /\ onCollisionCalls = 1
    /\ \E b \in DyingSet : b.id \in lastOp.touched /\ b.hasCollided

\* C8: after every handled resize to any width and height, small ones
\* included, every glyph body has x in [20, width - 20] and y not below
\* height - 50.
C8_ResizeBounds ==
    (lastOp.name = "resize" /\ lastOp.arg = 1)
    => \A b \in LetterSet :
          /\ MARGIN_X * PX <= b.x
          /\ b.x <= (renderOptions.width - MARGIN_X) * PX
          /\ b.y <= (renderOptions.height - MARGIN_Y) * PX

\* position and colour of letter b are as they were
SamePlaceAndColor(b) ==
    /\ BodyNext(b.id).x = b.x
    /\ BodyNext(b.id).y = b.y
    /\ BodyNext(b.id).color = b.color

\* the quotient p / q of two dimensions, in lowest terms
Quotient(p, q) ==
    LET g1 == Gcd(Abs(p.n), Abs(q.n))
        g2 == Gcd(p.d, q.d)
    IN Rat((p.n \div g1) * (q.d \div g2), (p.d \div g2) * (q.n \div g1))

\* width and height of letter b have both been multiplied by cur / prev
ScaledBy(b, cur, prev) ==
    /\ Quotient(BodyNext(b.id).w, b.w) = Rat(cur, prev)
    /\ Quotient(BodyNext(b.id).h, b.h) = Rat(cur, prev)

\* C9 as stated: a config update that changes fontSize * spacing by the factor
\* f scales the shape dimensions of every glyph body in the world by exactly
\* f, and leaves its position and colour as they were.
C9_RescaleByConfigFactor ==
    [][(lastOp'.name = "updateConfig"
        /\ EffectiveSize(config') # EffectiveSize(config))
         => \A b \in LetterSet :
               /\ InWorldNext(b.id)
               /\ ScaledBy(b, EffectiveSize(config'), EffectiveSize(config))
               /\ SamePlaceAndColor(b)]_vars

\* C9 as amended: a config update whose fontSize * spacing differs by more
\* than 0.1 from the effective size of the last rescale (of the mount, before
\* the first) multiplies the shape dimensions of every glyph body in the world
\* by exactly the quotient of the two; any other config update leaves the
\* dimensions as they were; position and colour are unchanged either way.
C9_RescaleSinceLastRescale ==
    [][lastOp'.name = "updateConfig"
         => LET cur == EffectiveSize(config')
                prev == prevEffectiveSizeRef
            IN \A b \in LetterSet :
                  /\ InWorldNext(b.id)
                  /\ IF cur - prev > EPSILON \/ prev - cur > EPSILON
                     THEN ScaledBy(b, cur, prev)
                     ELSE /\ BodyNext(b.id).w = b.w
                          /\ BodyNext(b.id).h = b.h
                  /\ SamePlaceAndColor(b)]_vars

\* a config update has just rescaled two letters, one of them spawned after
\* an update that changed the effective size by less than the epsilon
C9_Witness ==
    /\ lastOp.name = "updateConfig"
    /\ lastOp.arg = 1
    /\ prevEffectiveSizeRef = EffectiveSize(config)
    /\ \E a, b \in LetterSet :
          /\ a.w = LetterWidth(config)
          /\ b.w # LetterWidth(config)

\* the effective size (thousandths of px) of which the dimension q is
\* share/10 lies within the epsilon of e
WithinEpsilon(q, share, e) ==
    LET size == RatScale(q, 10 * 1000, share)
    IN /\ size.n - e * size.d <= EPSILON * size.d
       /\ e * size.d - size.n <= EPSILON * size.d

\* C10: after any sequence of addText and config updates, every glyph body in
\* the world has width 0.6 * fontSize * spacing and height
\* 0.8 * fontSize * spacing of the current config, up to the epsilon of 0.1
\* in effective size.
C10_HitboxMatchesConfig ==
    \A b \in LetterSet :
        /\ WithinEpsilon(b.w, 6, EffectiveSize(config))
        /\ WithinEpsilon(b.h, 8, EffectiveSize(config))

\* C11: a second pruneBodies(m) with the same m and no spawn in between marks
\* no further body and changes no dyingSince: right after the first call, and
\* also when time has passed in between, the world is as the first call left
\* it.
C11_PruneIdempotent ==
    /\ [][(lastOp.name = "pruneBodies" /\ lastOp'.name = "pruneBodies"
           /\ lastOp'.arg = lastOp.arg)
            => bodies' = bodies]_vars
    /\ [](\A m \in 0..MaxCount :
             /\ Pruned(Pruned(bodies, m, now), m, now) = Pruned(bodies, m, now)
             /\ Pruned(Pruned(bodies, m, now), m, now + TimeStep)
                   = Pruned(bodies, m, now))

\* pruneBodies(1) has just run on a world with one alive letter and with
\* letters marked at an earlier time: it has marked nothing
C11_Witness ==
    /\ lastOp.name = "pruneBodies"
    /\ lastOp.arg = 1
    /\ AliveCount = 1
    /\ DyingSet # {}
    /\ \A b \in DyingSet : b.dyingSince < now

\* C12: pruneBodies, with any maxCount, leaves every body that is already
\* dying as it was (same dyingSince), and marks exactly as many bodies as the
\* alive ones exceed maxCount: the dying ones are not counted.
C12_DyingNotRemarked ==
    [][lastOp'.name = "pruneBodies"
         => /\ \A b \in DyingSet : InWorldNext(b.id) /\ BodyNext(b.id) = b
            /\ Cardinality({b \in LetterSet :
                               ~b.isDying /\ BodyNext(b.id).isDying})
                  = Max(0, AliveCount - lastOp'.arg)]_vars

\* pruneBodies(0) has just marked the last alive letter, after an earlier
\* pruneBodies with a higher maxCount marked another at an earlier time
C12_Witness ==
    /\ lastOp.name = "pruneBodies"
    /\ lastOp.arg = 0
    /\ AliveCount = 0
    /\ \E a, b \in DyingSet : a.dyingSince < now /\ b.dyingSince = now

\* C13: clearWorld removes every glyph body at once, alive and dying alike,
\* and leaves the three walls and the drag constraint as they were.
C13_ClearRemovesAll ==
    [][lastOp'.name = "clearWorld"
         => /\ Letters(bodies') = <<>>
            /\ bodies' = SelectSeq(bodies, LAMBDA b : b.label = "wall")
            /\ Len(bodies') = 3
            /\ constraints' = constraints]_vars

\* clearWorld has just removed a fading letter and an alive one
C13_Witness ==
    /\ lastOp.name = "clearWorld"
    /\ lastOp.arg >= 1
    /\ lastOp.gone > lastOp.arg
    /\ constraints = 1

\* what the component and its world hold, without the history
program == <<engineRef, bodies, constraints, renderOptions, config,
             prevEffectiveSizeRef, onCollisionRef, now, nextId, onReadyCalls,
             onCollisionCalls>>

\* C14: before the engine is created addText, clearWorld and pruneBodies
\* change nothing; the world stays without bodies until the mount effect
\* runs, and the world that effect builds holds no letter: a spawn asked for
\* earlier is not kept for later.
C14_NoOpBeforeInit ==
    /\ [][(~engineRef
           /\ lastOp'.name \in {"addText", "clearWorld", "pruneBodies"})
            => program' = program]_vars
    /\ [](~engineRef => bodies = <<>> /\ nextId = 1)
    /\ [][lastOp'.name = "mount"
            => Letters(bodies') = <<>> /\ nextId' = 1]_vars

\* addText has just been called before the mount effect ran
C14_Witness ==
    /\ ~engineRef
    /\ lastOp.name = "addText"
    /\ bodies = <<>>

WallSet == {b \in Range(bodies) : b.label = "wall"}

\* C18: from the mount effect to the cleanup, between handlers, the world
\* holds exactly three static wall bodies, a floor, a left and a right wall,
\* placed and sized for the width and height of the last handled resize (of
\* the mount, before the first); no other body is static.
C18_WallsPresent ==
    (engineRef /\ lastOp.name # "unmount")
    => LET width == renderOptions.width
           height == renderOptions.height
       IN /\ Cardinality(WallSet) = 3
          /\ Len(bodies) = 3 + Len(Letters(bodies))
          /\ \A b \in Range(bodies) : b.isStatic <=> b \in WallSet
          /\ \E ground, leftWall, rightWall \in WallSet :
                /\ ground.w = Rat(width, 1)
                /\ ground.h = Rat(wallThickness, 1)
                /\ 2 * ground.x = width * PX
                /\ 2 * ground.y = (2 * height + wallThickness - 20) * PX
                /\ leftWall.h = Rat(2 * height, 1)
                /\ leftWall.w = Rat(wallThickness, 1)
                /\ 2 * leftWall.x = (0 - wallThickness) * PX
                /\ 2 * leftWall.y = height * PX
                /\ rightWall.h = Rat(2 * height, 1)
                /\ rightWall.w = Rat(wallThickness, 1)
                /\ 2 * rightWall.x = (2 * width + wallThickness) * PX
                /\ 2 * rightWall.y = height * PX

\* a handled resize to a scene other than the mounted one has just rebuilt
\* the world, with a letter in it and another swept away earlier
C18_Witness ==
    /\ lastOp.name = "resize"
    /\ lastOp.arg = 1
    /\ LetterSet # {}
    /\ removed # {}
    /\ Cardinality(WallSet) = 3

\* C19: onReady is invoked by the mount effect only, once, when a callback is
\* supplied, with the engine, the walls and the drag constraint in place; no
\* config change, resize, spawn or other handler invokes it again.
C19_OnReadyOnce ==
    /\ [][onReadyCalls' # onReadyCalls
            => /\ lastOp'.name = "mount"
               /\ onReadyCalls = 0 /\ onReadyCalls' = 1
               /\ engineRef' /\ Len(bodies') = 3 /\ constraints' = 1]_vars
    /\ [][(lastOp'.name = "mount" /\ lastOp'.arg = 1)
            => onReadyCalls' = onReadyCalls + 1]_vars
    /\ [](onReadyCalls <= 1)
    /\ [](~engineRef => onReadyCalls = 0)

\* onReady has been called once, and since then letters were spawned, one
\* was swept away and the config changed
C19_Witness ==
    /\ onReadyCalls = 1
    /\ lastOp.name = "updateConfig"
    /\ config # InitialConfig
    /\ LetterSet # {}
    /\ removed # {}

\* the bodies a step has appended to world.bodies
Added == SubSeq(bodies', Len(bodies) + 1, Len(bodies'))

\* C15: addText on an initialised world appends one glyph body for every
\* character of the text that is not a space, in text order, and none for a
\* space; an empty or all-space text adds nothing; every added body has
\* hasCollided = false, is not dying, and carries its character and the given
\* colour; the bodies already in the world stay as they were.
C15_OneBodyPerGlyph ==
    [][lastOp'.name = "addText"
         => LET glyphs == SelectSeq(lastOp'.arg.text, LAMBDA ch : ch # " ")
            IN /\ Len(bodies') = Len(bodies) + Len(glyphs)
               /\ SubSeq(bodies', 1, Len(bodies)) = bodies
               /\ \A i \in 1..Len(glyphs) :
                     /\ Added[i].label = "letter"
                     /\ Added[i].char = glyphs[i]
                     /\ Added[i].color = lastOp'.arg.color
                     /\ ~Added[i].hasCollided
                     /\ ~Added[i].isDying
                     /\ Added[i].id \notin Ids(bodies)
                     /\ \A j \in 1..Len(glyphs) :
                           i # j => Added[i].id # Added[j].id]_vars

\* addText('a b') in the second colour has just added its two letters, in
\* text order, behind a letter that was there before
C15_Witness ==
    /\ lastOp.name = "addText"
    /\ lastOp.arg.text = <<"a", " ", "b">>
    /\ lastOp.arg.color # DEFAULT_COLOR
    /\ Len(Letters(bodies)) = 3
    /\ Letters(bodies)[2].char = "a"
    /\ Letters(bodies)[3].char = "b"
    /\ Letters(bodies)[3].color # Letters(bodies)[1].color

\* C16 as stated: addText('hi', 100, 100) with the default colour creates two
\* glyph bodies, fontSize * 0.7 * spacing apart in x for any spacing, both
\* with hasCollided = false and isDying = false.
C16_HiApartBySpacing ==
    [][(lastOp'.name = "addText" /\ lastOp'.arg.text = <<"h", "i">>
        /\ lastOp'.arg.color = DEFAULT_COLOR)
         => /\ Len(Added) = 2
            /\ Added[2].x - Added[1].x = 7 * config.fontSize * config.spacing
            /\ \A i \in 1..2 : ~Added[i].hasCollided /\ ~Added[i].isDying]_vars

\* C16 as amended: the two bodies are fontSize * 0.7 * max(1, spacing) apart
\* in x, the first at (100, 100); both have the default colour,
\* hasCollided = false and isDying = false.
C16_HiApartByAdvance ==
    [][(lastOp'.name = "addText" /\ lastOp'.arg.text = <<"h", "i">>
        /\ lastOp'.arg.color = DEFAULT_COLOR)
         => /\ Len(Added) = 2
            /\ Added[1].char = "h" /\ Added[2].char = "i"
            /\ Added[1].x = 100 * PX
            /\ Added[1].y = 100 * PX /\ Added[2].y = 100 * PX
            /\ Added[2].x - Added[1].x
                  = IF config.spacing >= 1000
                    THEN 7 * config.fontSize * config.spacing
                    ELSE 7 * config.fontSize * 1000
            /\ \A i \in 1..2 :
                  /\ Added[i].color = DEFAULT_COLOR
                  /\ ~Added[i].hasCollided
                  /\ ~Added[i].isDying]_vars

\* 'hi' has just been spawned under a spacing below 1
C16_Witness ==
    /\ lastOp.name = "addText"
    /\ lastOp.arg.text = <<"h", "i">>
    /\ lastOp.arg.color = DEFAULT_COLOR
    /\ config.spacing < 1000
    /\ Len(Letters(bodies)) = 2
    /\ Letters(bodies)[2].x - Letters(bodies)[1].x = 7 * config.fontSize * 1000

\* C17: when n letters have been spawned one at a time into an empty world,
\* each spawn followed by pruneBodies(m), exactly the n - m oldest have
\* become dying (for m = 5 and n = 8: the 3 oldest) and the m newest are
\* alive; a physics step removes every body marked 600 ms ago or earlier, so
\* once 600 ms have passed since the last marking and a step has run, exactly
\* min(n, m) letters are in the world.
C17_EvictionExample ==
    LET n == nextId - 1
        d == Max(0, n - EvictMax)
    IN /\ ~SpawnPending
          => /\ Ids(ActiveBodies(bodies)) = (d + 1)..n
             /\ AliveCount = Min(n, EvictMax)
             /\ {b.id : b \in DyingSet} \cup removed = 1..d
             /\ {b.id : b \in DyingSet} \cap removed = {}
       /\ lastOp.name = "tick"
          => /\ \A b \in DyingSet : now - b.dyingSince < FADE_DURATION
             /\ DyingSet = {} => Len(Letters(bodies)) = Min(n, EvictMax)

\* 8 letters were typed with maxCount 5; the 3 oldest were marked, and a
\* physics step 600 ms after the last marking has left exactly 5 letters
C17_Witness ==
    /\ nextId = 9
    /\ lastOp.name = "tick"
    /\ removed = {1, 2, 3}
    /\ Len(Letters(bodies)) = 5
    /\ AliveCount = 5

----------------------------------------------------------------------------

\* the letters that the step has turned from alive to dying
NewlyDying ==
    {b \in LetterSet : ~b.isDying /\ InWorldNext(b.id) /\ BodyNext(b.id).isDying}

\* C22: pruneBodies(maxCount) marks exactly max(0, a - maxCount) bodies, a
\* being the letters alive before the call; each of them gets isDying = true
\* and dyingSince = now and is otherwise unchanged; with a <= maxCount the
\* world is unchanged; and no body leaves the world in the call
C22_PruneMarksSurplus ==
    [][lastOp'.name = "pruneBodies" =>
          /\ Cardinality(NewlyDying) = Max(0, AliveCount - lastOp'.arg)
          /\ \A b \in NewlyDying :
                BodyNext(b.id) = [b EXCEPT !.isDying = TRUE, !.dyingSince = now]
          /\ \A i \in 1..Len(bodies) :
                bodies[i] \notin NewlyDying => bodies'[i] = bodies[i]
          /\ Len(bodies') = Len(bodies)
          /\ Ids(bodies') = Ids(bodies)
          /\ (AliveCount <= lastOp'.arg => bodies' = bodies)]_vars

\* a prune to one letter, later than the start, has just marked two letters
C22_Witness ==
    /\ lastOp.name = "pruneBodies"
    /\ lastOp.arg = 1
    /\ now > 0
    /\ AliveCount = 1
    /\ Cardinality({b \in DyingSet : b.dyingSince = now}) = 2

----------------------------------------------------------------------------

\* the letters whose fade is over when a step begins
ExpiredSet ==
    {b \in LetterSet : b.isDying /\ now - b.dyingSince >= FADE_DURATION}

\* C23: the sweep runs in every physics step before the integration: a step
\* removes every letter that is dying with now - dyingSince >= FADE_DURATION,
\* such a letter takes part in no collision of the step (it latches nothing
\* and triggers no notification), the letters that stay are the ones the
\* step moves, and the step removes no letter that is alive or has been
\* dying for less than FADE_DURATION
C23_SweepBeforeIntegration ==
    [][lastOp'.name = "tick" =>
          /\ \A b \in ExpiredSet :
                /\ ~InWorldNext(b.id)
                /\ b.id \notin lastOp'.touched
          /\ \A b \in LetterSet \ ExpiredSet :
                /\ InWorldNext(b.id)
                /\ b.y < RestY * PX => BodyNext(b.id).y = b.y + FallStep * PX
          /\ lastOp'.gone = Cardinality(ExpiredSet)]_vars

\* a step has removed a letter whose fade was over while another letter,
\* dying for less than FADE_DURATION, stayed and collided in that step
C23_Witness ==
    /\ lastOp.name = "tick"
    /\ lastOp.gone = 1
    /\ \E b \in DyingSet :
          /\ now - b.dyingSince < FADE_DURATION
          /\ b.id \in lastOp.touched
          /\ b.hasCollided

----------------------------------------------------------------------------

\* C24: every letter marked dying is eventually removed from the world,
\* given that the runner keeps stepping and time keeps passing; and no step
\* (resize, config update, further prune, or any other) gives a dying letter
\* that stays in the world another dyingSince or makes it alive again
C24_DyingEventuallyRemoved ==
    /\ \A id \in 1..MaxPlaced :
          (\E b \in DyingSet : b.id = id) ~> (id \notin LetterIds)
    /\ [][\A b \in DyingSet :
             InWorldNext(b.id) =>
                /\ BodyNext(b.id).isDying
                /\ BodyNext(b.id).dyingSince = b.dyingSince]_vars

\* a step has removed a faded letter after the scene was resized and the
\* config changed, while a letter marked by a later prune is still fading
C24_Witness ==
    /\ lastOp.name = "tick"
    /\ lastOp.gone = 1
    /\ renderOptions.width # SceneW
    /\ config # InitialConfig
    /\ \E b \in DyingSet : b.dyingSince > 0

----------------------------------------------------------------------------

\* C25: every letter ever spawned is in exactly one of three phases: alive
\* (in the world, isDying false), dying (in the world, isDying true, with
\* dyingSince a timestamp not earlier than its createdAt) or removed (not in
\* the world); no letter is in the world twice
C25_ThreePhases ==
    /\ \A id \in 1..(nextId - 1) : (id \in LetterIds) # (id \in removed)
    /\ LetterIds \subseteq 1..(nextId - 1)
    /\ Cardinality(LetterIds) = Len(Letters(bodies))
    /\ \A b \in LetterSet :
          /\ b.isDying \in BOOLEAN
          /\ b.createdAt # NoTime
          /\ b.isDying => /\ b.dyingSince # NoTime
                          /\ b.dyingSince >= b.createdAt
                          /\ b.dyingSince <= now

\* the three phases at once: a letter alive, a letter dying since later than
\* its creation, and a letter removed by the sweep
C25_Witness ==
    /\ AliveCount >= 1
    /\ \E b \in DyingSet : b.dyingSince > b.createdAt
    /\ removed # {}
    /\ lastOp.name = "tick"
    /\ lastOp.gone = 1

----------------------------------------------------------------------------

\* C26: within a handled resize the walls for the new dimensions are added
\* to the world before the preserved letters are added back: of the worlds
\* the callback passes through, ending in the world it leaves, every one
\* that holds a letter holds the ground and both side walls of the new
\* dimensions, ahead of every letter
C26_WallsBeforeLetters ==
    [][(lastOp'.name = "resize" /\ lastOp'.arg = 1) =>
          LET width == renderOptions'.width
              height == renderOptions'.height
              worlds == ResizeWorlds(bodies, width, height)
              walls == createWalls(width, height)
          IN /\ worlds[Len(worlds)] = bodies'
             /\ \A k \in 1..Len(worlds) :
                   Letters(worlds[k]) # <<>> =>
                      /\ Len(worlds[k]) > Len(walls)
                      /\ SubSeq(worlds[k], 1, Len(walls)) = walls
                      /\ \A i \in (Len(walls) + 1)..Len(worlds[k]) :
                            worlds[k][i].label = "letter"]_vars

\* a handled resize to another width has preserved two letters
C26_Witness ==
    /\ lastOp.name = "resize"
    /\ lastOp.arg = 1
    /\ renderOptions.width # SceneW
    /\ Len(Letters(bodies)) = 2

----------------------------------------------------------------------------

\* C27: a resize notification whose width and height each differ from the
\* render width and height by at most 1 px, at an unchanged pixel density,
\* is ignored: walls and letters (positions, velocities, sleep state), the
\* mouse constraint and the render size, from which the canvas size and the
\* render bounds are set, stay as they are
C27_NoiseIgnored ==
    [][(/\ lastOp'.name = "resize"
        /\ Abs(lastOp'.arg.width - renderOptions.width) <= 1
        /\ Abs(lastOp'.arg.height - renderOptions.height) <= 1
        /\ lastOp'.arg.pixelRatio = renderOptions.pixelRatio) =>
          /\ bodies' = bodies
          /\ constraints' = constraints
          /\ renderOptions' = renderOptions]_vars

\* a notification one pixel wider and one pixel lower than the render size
\* has been ignored while a letter lies beyond the right margin, where a
\* handled resize would have pushed it back
C27_Witness ==
    /\ lastOp.name = "resize"
    /\ lastOp.arg.width = renderOptions.width + 1
    /\ lastOp.arg.height = renderOptions.height - 1
    /\ lastOp.arg.pixelRatio = renderOptions.pixelRatio
    /\ \E b \in LetterSet : b.x > (renderOptions.width - MARGIN_X) * PX

----------------------------------------------------------------------------

\* the letter lies within the margins of a scene of width x height
WithinMargins(b, width, height) ==
    /\ b.x >= MARGIN_X * PX
    /\ b.x <= (width - MARGIN_X) * PX
    /\ b.y <= (height - MARGIN_Y) * PX

\* C28: on a handled resize every letter whose position changes is awake and
\* has velocity zero afterwards, and every letter within the margins of the
\* new size is left exactly as it was (position, velocity, sleep state and
\* all else)
C28_PushBackStopsLetters ==
    [][(lastOp'.name = "resize" /\ lastOp'.arg = 1) =>
          \A b \in LetterSet :
             /\ InWorldNext(b.id)
             /\ (BodyNext(b.id).x # b.x \/ BodyNext(b.id).y # b.y) =>
                   /\ BodyNext(b.id).vx = 0
                   /\ BodyNext(b.id).vy = 0
                   /\ ~BodyNext(b.id).isSleeping
             /\ WithinMargins(b, renderOptions'.width, renderOptions'.height) =>
                   BodyNext(b.id) = b]_vars

\* a handled resize has stopped one letter, which it pushed back, and has
\* left another, within the margins, with its velocity
C28_Witness ==
    /\ lastOp.name = "resize"
    /\ lastOp.arg = 1
    /\ \E b \in LetterSet : b.vx = 0 /\ b.vy = 0
    /\ \E b \in LetterSet :
          /\ b.vy # 0
          /\ WithinMargins(b, renderOptions.width, renderOptions.height)

----------------------------------------------------------------------------

\* C29: from the mount effect to its cleanup the world holds the mouse
\* constraint exactly once, whatever resizes, clears, prunes and sweeps have
\* happened; before the mount effect and after the cleanup it holds none
C29_OneMouseConstraint ==
    /\ (engineRef /\ Running) => constraints = 1
    /\ (~engineRef \/ ~Running) => constraints = 0

\* a handled resize, after letters have left the world and with a letter
\* fading in it, has left one mouse constraint
C29_Witness ==
    /\ lastOp.name = "resize"
    /\ lastOp.arg = 1
    /\ removed # {}
    /\ DyingSet # {}
    /\ constraints = 1

----------------------------------------------------------------------------

\* C30: every letter in the world, alive or dying, has the friction and the
\* restitution of the current config: a config update applies them to every
\* letter whether or not it rescales, and a spawn takes them from the
\* current config
C30_MaterialMatchesConfig ==
    \A b \in LetterSet :
       /\ b.friction = config.friction
       /\ b.restitution = config.restitution

\* a config update that did not rescale has changed friction and
\* restitution, with a letter alive and a letter dying in the world
C30_Witness ==
    /\ lastOp.name = "updateConfig"
    /\ lastOp.arg = 0
    /\ config.friction # InitialConfig.friction
    /\ config.restitution # InitialConfig.restitution
    /\ AliveCount >= 1
    /\ DyingSet # {}

----------------------------------------------------------------------------

\* ctx.fillStyle = body.color || '#292524'
RenderColor(b) ==
    IF b.color \in {JsUndefined, JsNull, ""} THEN DEFAULT_COLOR ELSE b.color

\* a colour string, neither undefined nor null
IsColor(c) == c \notin {JsUndefined, JsNull}

\* the ends of the colour request at which the try block runs to its end
\* with a colors array
ArrayResponses ==
    {response \in ColorResponses :
        /\ response.fetch = "ok"
        /\ response.json = "value"
        /\ response.hasColors
        /\ \A i \in 1..Len(response.colors) : response.colors[i].hex}

\* C21 as stated: the list fetchColorScheme resolves to is a list of colours
\* whatever the request did, malformed entries included, so that the colour
\* the caller passes to addText is always defined
C21_ColorAlwaysDefined ==
    /\ \A i \in 1..Len(app.paletteColors) : IsColor(app.paletteColors[i])
    /\ IsColor(GetCurrentColor(app))

\* C21, amended: fetchColorScheme never rejects; it resolves to the seed
\* colour alone on a network error, a status that is not ok, a body that is
\* not JSON, a response without a colors array and an entry without a hex
\* object, and otherwise to the hex values of the entries as they are, be
\* they undefined or null; generateFallingPoem never rejects and resolves to
\* a non-empty text; the palette and the text of the auto-typer are what the
\* two resolved to; and a keystroke spawns its letter whatever the palette
\* holds, with a colour that is never undefined and is drawn as a colour
C21_FailuresContained ==
    /\ [][lastOp'.name = "fetchColorScheme" =>
             /\ lastOp'.arg.state = "fulfilled"
             /\ app'.paletteColors = lastOp'.arg.value
             /\ \E response \in ColorResponses :
                   lastOp'.arg.value =
                      IF response \in ArrayResponses
                      THEN [i \in 1..Len(response.colors) |->
                               response.colors[i].value]
                      ELSE <<SeedColor>>]_vars
    /\ [][lastOp'.name = "generateFallingPoem" =>
             /\ lastOp'.arg.state = "fulfilled"
             /\ lastOp'.arg.value # <<>>
             /\ app'.autoText = lastOp'.arg.value]_vars
    /\ [][lastOp'.name = "handleKeyDown" =>
             /\ Len(Added) = 1
             /\ Added[1].color # JsUndefined
             /\ IsColor(RenderColor(Added[1]))
             /\ \E rnd \in Rnds :
                   Added[1].color =
                      ColorOrDefault(GetCurrentColor(PlaceCursor(app, FALSE, rnd)))]_vars
    /\ \A response \in ColorResponses :
          /\ FetchColorScheme(SeedColor, response).state = "fulfilled"
          /\ response \notin ArrayResponses =>
                FetchColorScheme(SeedColor, response).value = <<SeedColor>>
    /\ \A response \in PoemResponses :
          /\ GenerateFallingPoem(response).state = "fulfilled"
          /\ GenerateFallingPoem(response).value # <<>>

\* the request has resolved to a list that holds undefined, and a keystroke
\* after it has spawned a letter that got the default colour of addText
C21_Witness ==
    /\ lastOp.name = "handleKeyDown"
    /\ app.paletteColors = <<JsUndefined>>
    /\ ~IsColor(GetCurrentColor(app))
    /\ \E b \in LetterSet : b.id = nextId - 1 /\ b.color = DEFAULT_COLOR

----------------------------------------------------------------------------

\* C31: a config update leaves the boundary bodies as they are: the walls
\* have the same dimensions, positions, friction and restitution, and the
\* same places in the world, before and after it, whether it rescales the
\* letters or not
C31_ConfigLeavesWalls ==
    [][lastOp'.name = "updateConfig" =>
          /\ Len(bodies') = Len(bodies)
          /\ \A i \in 1..Len(bodies) :
                bodies[i].label = "wall" => bodies'[i] = bodies[i]]_vars

\* a config update has rescaled a letter and changed its friction, and the
\* walls are those of the mount
C31_Witness ==
    /\ lastOp.name = "updateConfig"
    /\ lastOp.arg = 1
    /\ config.friction # InitialConfig.friction
    /\ \E b \in LetterSet :
          /\ b.w # LetterWidth(InitialConfig)
          /\ b.friction = config.friction
    /\ WallSet = Range(createWalls(SceneW, SceneH))

----------------------------------------------------------------------------

\* the sum of the advances of the first n characters of text under config c,
\* in 1/PX px: fontSize x 0.6 x max(1, spacing) for a space and
\* fontSize x 0.7 x max(1, spacing) for any other character
RECURSIVE AdvanceOf(_, _, _)
AdvanceOf(text, n, c) ==
    IF n = 0 THEN 0
    ELSE AdvanceOf(text, n - 1, c)
         + (IF text[n] = " " THEN 6 ELSE 7) * c.fontSize * Max(1000, c.spacing)

\* the positions in text of the characters that are not spaces, in order
GlyphIndexes(text) ==
    SelectSeq([i \in 1..Len(text) |-> i], LAMBDA i : text[i] # " ")

\* C32: addText places the character at position i of the text at
\* X = originX + the sum of the advances of the characters before it, and
\* gives every body of the call the same Y: the Y given, or 50 px above the
\* top edge when none is given; originX is the X given, or the random X
\* drawn when none is given
C32_SpawnLayout ==
    [][lastOp'.name = "addText" =>
          LET text == lastOp'.arg.text
              start == lastOp'.arg.start
              originX == IF start = Undefined
                         THEN (renderOptions.width * PX
                               * (8 * lastOp'.arg.rndX + 10)) \div 100
                         ELSE start * PX
              originY == IF start = Undefined THEN (0 - 50) * PX ELSE start * PX
              glyphs == GlyphIndexes(text)
          IN /\ Len(Added) = Len(glyphs)
             /\ \A k \in 1..Len(glyphs) :
                   /\ Added[k].char = text[glyphs[k]]
                   /\ Added[k].x = originX + AdvanceOf(text, glyphs[k] - 1, config)
                   /\ Added[k].y = originY]_vars

\* "a b" has been spawned without a place given, under a spacing below 1:
\* two bodies 50 px above the top edge, a letter advance and a space advance
\* apart
C32_Witness ==
    /\ lastOp.name = "addText"
    /\ lastOp.arg.text = <<"a", " ", "b">>
    /\ lastOp.arg.start = Undefined
    /\ config.spacing < 1000
    /\ \E a, b \in LetterSet :
          /\ a.char = "a" /\ b.char = "b"
          /\ a.y = (0 - 50) * PX /\ b.y = a.y
          /\ b.x - a.x = 13 * config.fontSize * 1000

\* ---------------------------------------------------------------------
\* C33: at render time a letter that is not dying has alpha 1 and scale 1;
\* a dying letter with elapsed = now - dyingSince below FADE_DURATION has
\* alpha 1 - elapsed / FADE_DURATION and scale 1 - 0.4 * elapsed /
\* FADE_DURATION, and from FADE_DURATION on alpha 0 and scale 0.6; a
\* letter is drawn exactly when its alpha is positive, a wall never.
\* Alpha is held times FADE_DURATION, scale times 10 * FADE_DURATION.
C33_RenderFade ==
    \A i \in 1..Len(bodies) :
        LET b == bodies[i]
            elapsed == now - b.dyingSince
        IN /\ b.label = "wall" => ~Drawn(b, now)
           /\ (b.label = "letter" /\ ~b.isDying) =>
                 /\ RenderAlpha(b, now) = FADE_DURATION
                 /\ RenderScale(b, now) = 10 * FADE_DURATION
                 /\ Drawn(b, now)
           /\ (b.label = "letter" /\ b.isDying /\ elapsed < FADE_DURATION) =>
                 /\ RenderAlpha(b, now) = FADE_DURATION - elapsed
                 /\ RenderScale(b, now) = 10 * FADE_DURATION - 4 * elapsed
                 /\ Drawn(b, now)
           /\ (b.label = "letter" /\ b.isDying /\ elapsed >= FADE_DURATION) =>
                 /\ RenderAlpha(b, now) = 0
                 /\ RenderScale(b, now) = 6 * FADE_DURATION
                 /\ ~Drawn(b, now)

\* a letter that is not dying, one that is part way through its fade and
\* one whose fade is over and has not been swept yet are rendered
C33_Witness ==
    /\ \E i \in 1..Len(bodies) : bodies[i].label = "letter" /\ ~bodies[i].isDying
    /\ \E i \in 1..Len(bodies) :
          /\ bodies[i].isDying
          /\ now - bodies[i].dyingSince > 0
          /\ now - bodies[i].dyingSince < FADE_DURATION
    /\ \E i \in 1..Len(bodies) :
          /\ bodies[i].isDying
          /\ now - bodies[i].dyingSince > FADE_DURATION

----------------------------------------------------------------------------

\* C34: pruneBodies changes nothing of a body but isDying and dyingSince
\* and removes no body; a step of the runner keeps every dying letter
\* whose fade is not over in the world, lets it fall like any letter, and
\* treats it in collisionStart like any letter: when it is in a pair it
\* has hasCollided afterwards, and when it had not collided before,
\* onCollision is called
C34_MarkingLeavesPhysics ==
    [][/\ lastOp'.name = "pruneBodies" =>
             /\ Len(bodies') = Len(bodies)
             /\ \A i \in 1..Len(bodies) :
                   bodies'[i] =
                      [bodies[i] EXCEPT !.isDying = bodies'[i].isDying,
                                        !.dyingSince = bodies'[i].dyingSince]
       /\ lastOp'.name = "tick" =>
             \A b \in DyingSet :
                now - b.dyingSince < FADE_DURATION =>
                   /\ InWorldNext(b.id)
                   /\ BodyNext(b.id).isDying
                   /\ b.y < RestY * PX =>
                         BodyNext(b.id).y = b.y + FallStep * PX
                   /\ b.id \in lastOp'.touched =>
                         /\ BodyNext(b.id).hasCollided
                         /\ (~b.hasCollided /\ onCollisionRef) =>
                               onCollisionCalls' = onCollisionCalls + 1]_vars

\* a step has reported a pair of the ground and a letter that is dying and
\* moving, and onCollision was called for it: the letter had not collided
\* before, the ground never latches
C34_Witness ==
    /\ lastOp.name = "tick"
    /\ lastOp.arg = 1
    /\ \E b \in DyingSet :
          /\ lastOp.touched = {b.id, -1}
          /\ b.hasCollided
          /\ b.vy # 0
          /\ now > b.dyingSince

----------------------------------------------------------------------------

\* C35: a letter that is not dying leaves the world only through clearWorld
\* or the cleanup of the mount effect: after a step of the runner, a
\* pruneBodies, a config update, a resize or an addText every letter that
\* was in the world with isDying false is still in the world
C35_AliveLeavesByClearOrTeardown ==
    [][\A b \in LetterSet :
          (~b.isDying /\ ~InWorldNext(b.id)) =>
             lastOp'.name \in {"clearWorld", "unmount"}]_vars

\* the sweep has removed a faded letter and left a letter that is not
\* dying, after the scene was resized and the config changed
C35_Witness ==
    /\ lastOp.name = "tick"
    /\ lastOp.gone = 1
    /\ \E b \in LetterSet : ~b.isDying /\ b.createdAt < now
    /\ renderOptions.width # SceneW
    /\ config # InitialConfig

----------------------------------------------------------------------------

\* C36: at most one timeout of the auto-typer is pending at any time: the
\* one autoTypeTimeoutRef holds while auto-typing is on, none while it is
\* off; typeNextChar runs from a timeout only while auto-typing is on, and
\* no step that ends with auto-typing off has spawned a letter from the
\* auto-type loop, whatever dependency of the effect the step changed
C36_SingleTimerChain ==
    /\ [](/\ Cardinality(app.timeouts) <= 1
          /\ app.isAutoTyping => app.timeouts = {app.autoTypeTimeoutRef}
          /\ ~app.isAutoTyping => app.timeouts = {})
    /\ [][/\ lastOp'.name = "typeNextChar" => app.isAutoTyping
          /\ ~app'.isAutoTyping => nextId' = nextId
          /\ nextId' - nextId <= 1]_vars

\* the palette changed while a timeout of the chain was pending: the
\* effect restarted, typed the second character at once, and one timeout
\* is pending afterwards
C36_Witness ==
    /\ lastOp.name = "fetchColorScheme"
    /\ lastOp.arg = 1
    /\ app.isAutoTyping
    /\ app.autoTypeIndex = 2
    /\ app.timeouts = {app.autoTypeTimeoutRef}

----------------------------------------------------------------------------

\* C37: the handlers of one key press spawn at most one letter between
\* them: handleKeyDown changes nothing when the hidden input has the focus
\* and the key is a character, and handleInputChange then spawns the
\* letter; with the focus on the page handleKeyDown spawns it, and with the
\* focus in another input nothing is spawned; a space spawns no letter on
\* either path
C37_NoDoubleTyping ==
    [][/\ lastOp'.name = "handleKeyDown" =>
             /\ lastOp'.arg.spawned <= 1
             /\ (lastOp'.arg.target = "hidden" /\ Len(lastOp'.arg.key) = 1) =>
                   (nextId' = nextId /\ app' = app /\ bodies' = bodies)
             /\ lastOp'.arg.target = "input" => nextId' = nextId
             /\ (lastOp'.arg.target = "body" /\ lastOp'.arg.key = <<"a">>) =>
                   nextId' = nextId + 1
             /\ lastOp'.arg.key = <<" ">> => nextId' = nextId
       /\ lastOp'.name = "handleInputChange" =>
             /\ lastOp'.arg.spawned <= 1
             /\ lastOp'.arg.key = <<"a">> => nextId' = nextId + 1
             /\ lastOp'.arg.key = <<" ">> => nextId' = nextId]_vars

\* the letter of a key press in the hidden input has been spawned by
\* handleInputChange, after a letter typed on the page: two presses, two
\* letters
C37_Witness ==
    /\ lastOp.name = "handleInputChange"
    /\ lastOp.arg.key = <<"a">>
    /\ lastOp.arg.spawned = 1
    /\ nextId = 3
    /\ Len(Letters(bodies)) = 2

----------------------------------------------------------------------------

\* the k-th note of the order 0, 1, 2, 3, 2, 1, 0, 1, ...
PingPong(k) ==
    LET r == (k - 1) % 6
    IN IF r <= 3 THEN r ELSE 6 - r

\* currentChordIndex is an index of CHORD_PROGRESSION and arpeggioIndex an
\* index of the current chord
ArpeggioInRange ==
    LET au == app.audioService
    IN /\ au.currentChordIndex \in 0..3
       /\ au.arpeggioIndex \in 0..3
       /\ au.arpeggioIndex
             \in 0..(Len(CHORD_PROGRESSION[au.currentChordIndex + 1]) - 1)

\* a playTypingSound call made while muted or without a context leaves
\* the service as it is
SilentCallsAdvanceNothing ==
    (/\ lastOp'.name = "playTypingSound"
     /\ (app.audioService.isMuted \/ ~app.audioService.ctx)) =>
        (app'.audioService = app.audioService /\ lastOp'.arg.note = -1)

====
